---- MODULE Spec2Model ----
(***************************************************************************)
(* Tool dispatch of xcode-mcp: the tool registry (src/src/tool_registry.py),*)
(* the JSON-RPC dispatcher (src/src/unified_mcp_server.py), its transports  *)
(* (stdin/stdout loop, HTTP endpoint and WebSocket handler of               *)
(* src/src/mcp_http_server.py with src/src/mcp_http_wrapper.py) and the     *)
(* reason/act loop (src/src/langgraph_agent.py).                            *)
(*                                                                         *)
(* Python values are modelled as follows.  A dict with string keys whose   *)
(* key set varies (a JSON-RPC response) is a function over the keys it     *)
(* holds, so "key in d" is "key \in DOMAIN d".  A dict whose key order      *)
(* matters (the arguments of a tools/call) is a sequence of <<key, value>>  *)
(* pairs in insertion order.  A formatted string is the tuple of its parts. *)
(***************************************************************************)
EXTENDS Integers, Sequences, FiniteSets, TLC

VARIABLES
    transport,          \* which entry point runs the process: "stdio" | "network"
    initialized,        \* UnifiedMCPServer.initialized
    langgraph_enabled,  \* UnifiedMCPServer.langgraph_enabled
    lg_agent,           \* module global _langgraph_agent: "none" or the model it was built for
    tool_cache,         \* UnifiedMCPServer._tool_cache: schema key -> <<time, schema>>
    response_cache,     \* UnifiedMCPServer._response_cache: cache key -> <<time, envelope>>
    now,                \* the clock read by time.time()
    ticks,              \* how often the clock has advanced (bounds the model)
    pc,                 \* position of UnifiedMCPServer.run: "read" | "handle" | "eof"
    cur_line,           \* the line run() has read and not yet handled
    received,           \* number of inputs received: lines read from stdin, HTTP requests,
                        \* WebSocket messages
    answered,           \* line numbers, in the order their responses were written to stdout
    conns,              \* open (accepted) WebSocket connections
    last_response,      \* MCPResponseCapture.last_response
    step,               \* what the last handled request did (request, tool invocations, cache use)
    messages,           \* AgentState.messages of the running graph
    tool_results,       \* AgentState.tool_results of the running graph
    node,               \* next node of the compiled graph: "idle" | "agent" | "tools" | "end" | "error"
    supersteps,         \* node executions of the current graph invocation
    run_exc,            \* the exception that ended the graph invocation, None if none
    auth,               \* module globals REQUIRE_AUTH and API_KEY of mcp_http_server
    ws_keys,            \* the api_key query parameter of each open WebSocket connection
    tool_modules,       \* the list tool_modules of ToolRegistry._load_implementations
    implementations,    \* ToolRegistry.implementations: tool name -> module of the callable
    loaded,             \* how many modules _load_implementations has processed
    pending,            \* network requests that have arrived and whose handler has not begun
    executing,          \* handlers the event loop has begun and not finished
    current_provider,   \* LLMService.current_provider of the global _llm_service
    subprocess_outcome  \* what subprocess.run did in the last tool invocation: "none" when
                        \* no process was run, else "exit0" | "exit1" | "timeout"

vars == <<transport, initialized, langgraph_enabled, lg_agent, tool_cache, response_cache,
          now, ticks, pc, cur_line, received, answered, conns, last_response, step,
          messages, tool_results, node, supersteps, run_exc,
          auth, ws_keys, tool_modules, implementations, loaded, pending, executing,
          current_provider, subprocess_outcome>>

gateVars == <<auth, ws_keys>>

registryVars == <<tool_modules, implementations, loaded>>

loopVars == <<pending, executing>>

toolVars == <<current_provider, subprocess_outcome>>

serverVars == <<transport, initialized, langgraph_enabled, lg_agent, tool_cache,
                response_cache, now, ticks, pc, cur_line, received, answered, conns,
                last_response, step, gateVars, registryVars, loopVars, toolVars>>

agentVars == <<messages, tool_results, node, supersteps, run_exc>>

-----------------------------------------------------------------------------
(* Bounds of the model *)

\* how many times the clock may advance
MaxTicks == 2
\* how many inputs (lines of stdin, HTTP requests, WebSocket messages) a run receives
MaxInputs == 3
\* how many WebSocket connections may be open at once
MaxConns == 1
\* how many modules the list of tool modules may hold
MaxModules == 2

(* Program constants *)

\* self._cache_ttl = 300
CacheTTL == 300

-----------------------------------------------------------------------------
(* Python / JSON values *)

\* Python None, JSON null
None == "None"

\* d.get(key, default) on a dict held as a sequence of <<key, value>> pairs
RECURSIVE DictGet(_, _, _)
DictGet(d, key, default) ==
    IF d = <<>> THEN default
    ELSE IF Head(d)[1] = key THEN Head(d)[2]
    ELSE DictGet(Tail(d), key, default)

\* the keys of such a dict
DictKeys(d) == {d[i][1] : i \in 1..Len(d)}

\* the order of the strings used as argument names (Python compares them by code point)
KeyRank(k) ==
    CASE k = "a" -> 1
      [] k = "b" -> 2
      [] k = "model" -> 3
      [] k = "prompt" -> 4
      [] k = "self" -> 5
      [] k = "tool_name" -> 6
      [] OTHER -> 7

\* insertion of one pair into a sequence of pairs sorted by key
RECURSIVE InsertSorted(_, _)
InsertSorted(pair, sorted) ==
    IF sorted = <<>> THEN <<pair>>
    ELSE IF KeyRank(pair[1]) <= KeyRank(Head(sorted)[1]) THEN <<pair>> \o sorted
    ELSE <<Head(sorted)>> \o InsertSorted(pair, Tail(sorted))

RECURSIVE SortKeys(_)
SortKeys(d) == IF d = <<>> THEN <<>> ELSE InsertSorted(Head(d), SortKeys(Tail(d)))

\* json.dumps(arguments, sort_keys=True): the text lists the pairs by ascending key
JsonDumpsSorted(d) == <<"json", SortKeys(d)>>

\* a tool return value json.dumps cannot serialise (it raises TypeError)
Unserializable == "<object>"

\* json.dumps(value, separators=(',', ':')) of a serialisable value
JsonDumps(v) == <<"json", v>>

-----------------------------------------------------------------------------
(* Tool registry: src/src/tool_registry.py *)

\* the "tools" list of the catalog document read by ToolRegistry.__init__
Schema ==
    << [name |-> "check_xcode_cli", description |-> "Verify Xcode CLI", parameters |-> <<>>],
       [name |-> "list_projects", description |-> "List projects",
        parameters |-> << [name |-> "a", type |-> "string", required |-> TRUE],
                          [name |-> "b", type |-> "string", required |-> FALSE] >>],
       [name |-> "export_archive", description |-> "Export archive", parameters |-> <<>>],
       [name |-> "build_project", description |-> "Build a project",
        parameters |-> << [name |-> "project_path", type |-> "string", required |-> TRUE],
                          [name |-> "scheme", type |-> "string", required |-> TRUE] >>],
       [name |-> "set_llm_provider", description |-> "Switch LLM provider",
        parameters |-> << [name |-> "provider", type |-> "string", required |-> TRUE],
                          [name |-> "model", type |-> "string", required |-> FALSE] >>],
       [name |-> "get_llm_status", description |-> "LLM status", parameters |-> <<>>] >>

\* ToolRegistry._load_tool_definitions: self.tools[tool_name] = tool_def for each named entry
RECURSIVE LoadToolDefinitions(_, _)
LoadToolDefinitions(defs, tools) ==
    IF defs = <<>> THEN tools
    ELSE LET tool_def == Head(defs)
         IN  LoadToolDefinitions(Tail(defs),
                 IF tool_def.name # "" /\ tool_def.name # None
                 THEN [n \in DOMAIN tools \cup {tool_def.name} |->
                          IF n = tool_def.name THEN tool_def ELSE tools[n]]
                 ELSE tools)

\* ToolRegistry.tools
RegistryTools == LoadToolDefinitions(Schema, <<>>)

\* the catalog names in the order list_tools() returns their definitions
\* (dict insertion order: first occurrence of each name)
RECURSIVE ToolOrder(_, _)
ToolOrder(defs, seen) ==
    IF defs = <<>> THEN <<>>
    ELSE LET n == Head(defs).name
         IN  IF n = "" \/ n = None \/ n \in seen THEN ToolOrder(Tail(defs), seen)
             ELSE <<n>> \o ToolOrder(Tail(defs), seen \cup {n})

\* ToolRegistry.list_tools: list(self.tools.values())
ListTools == [i \in 1..Len(ToolOrder(Schema, {})) |-> RegistryTools[ToolOrder(Schema, {})[i]]]

\* the implementation modules in the order of tool_modules, each with the callables
\* that dir(module) shows
ToolModules ==
    << [module |-> "project", exports |-> {"list_projects", "_find_projects"}],
       [module |-> "build",   exports |-> {"check_xcode_cli", "build_project"}],
       [module |-> "meta",    exports |-> {"get_platform"}],
       [module |-> "llm_config", exports |-> {"set_llm_provider", "get_llm_status"}] >>

\* attr_name.startswith("_"), over the attribute names of ToolModules
StartsWithUnderscore(attr_name) == attr_name \in {"_find_projects"}

\* ToolRegistry._load_implementations: for each module in order, each public attribute
\* named like a catalog tool is stored: self.implementations[attr_name] = attr
RECURSIVE LoadImplementations(_, _)
LoadImplementations(modules, impls) ==
    IF modules = <<>> THEN impls
    ELSE LET m == Head(modules)
             bound == {a \in m.exports : ~StartsWithUnderscore(a) /\ a \in DOMAIN RegistryTools}
         IN  LoadImplementations(Tail(modules),
                 [n \in DOMAIN impls \cup bound |-> IF n \in bound THEN m.module ELSE impls[n]])

\* ToolRegistry.implementations: tool name -> the module whose callable is bound
Implementations == LoadImplementations(ToolModules, <<>>)

\* ToolRegistry.get_tool_implementation: None when nothing is bound
GetToolImplementation(tool_name) ==
    IF tool_name \in DOMAIN Implementations THEN Implementations[tool_name] ELSE None

\* what an implementation can do when it is called: return a value or raise
ToolValues == {"v1", "v2", Unserializable}
ImplOutcomes == [raises : {FALSE}, value : ToolValues, exc : {None}]
                \cup [raises : {TRUE}, value : {None}, exc : {"boom"}]

\* ToolRegistry.execute_tool(tool_name, **kwargs), given what the implementation does
\* when it is called
ExecuteTool(tool_name, kwargs, impl_outcome) ==
    IF GetToolImplementation(tool_name) = None
    THEN [success |-> FALSE, error |-> <<"Tool '", tool_name, "' not implemented">>,
          result |-> None]
    ELSE IF impl_outcome.raises
    THEN [success |-> FALSE, error |-> <<impl_outcome.exc>>, result |-> None]
    ELSE [success |-> TRUE, error |-> <<>>, result |-> impl_outcome.value]

\* the names Python binds positionally in "def execute_tool(self, tool_name, **kwargs)"
ExecuteToolPositional == {"self", "tool_name"}

\* the call self.registry.execute_tool(tool_name, **arguments): Python raises TypeError
\* ("got multiple values for argument") before the body runs when a keyword names a
\* positional parameter; otherwise the body's return value comes back
CallExecuteTool(tool_name, arguments, impl_outcome) ==
    IF DictKeys(arguments) \cap ExecuteToolPositional # {}
    THEN [raised |-> TRUE, exc |-> <<"TypeError">>, invoked |-> FALSE,
          outcome |-> [success |-> FALSE, error |-> <<>>, result |-> None]]
    ELSE [raised |-> FALSE, exc |-> <<>>,
          invoked |-> GetToolImplementation(tool_name) # None,
          outcome |-> ExecuteTool(tool_name, arguments, impl_outcome)]

-----------------------------------------------------------------------------
(* Reason/act loop: src/src/langgraph_agent.py *)

\* the number of node executions after which the compiled graph gives up with
\* GraphRecursionError; graph.ainvoke(initial_state) passes no limit of its own,
\* so the library's default applies (the model runs with a small one)
RecursionLimit == 3
\* the longest batch of tool calls one reasoning output requests
MaxBatch == 3

\* key_tools of _create_tools
KeyTools == <<"list_projects", "check_xcode_cli", "list_devices", "list_schemes",
              "get_llm_status", "build_project", "run_tests", "boot_simulator">>

\* XcodeLangGraphAgent._create_tools: a wrapper for each key tool that is in the catalog
\* and has an implementation; the sequence of the wrappers' names
CreateTools ==
    SelectSeq(KeyTools, LAMBDA n : n \in DOMAIN RegistryTools /\ GetToolImplementation(n) # None)

\* tool_wrapper(**kwargs) of _create_tools: calls the implementation itself (not
\* execute_tool) and returns json.dumps of the "result" entry of what it returned;
\* an exception of the implementation or of json.dumps propagates
ToolWrapper(name, impl_outcome) ==
    IF impl_outcome.raises THEN [raises |-> TRUE, value |-> None, exc |-> impl_outcome.exc]
    ELSE IF impl_outcome.value = Unserializable
    THEN [raises |-> TRUE, value |-> None, exc |-> "TypeError"]
    ELSE [raises |-> FALSE, value |-> <<"json", "result of", impl_outcome.value>>, exc |-> None]

\* HumanMessage(content=prompt)
HumanMessage(prompt) == [type |-> "human", content |-> <<prompt>>]

\* ToolMessage(content=str(result), tool_call_id=tool_call_id)
ToolMessage(content, tool_call_id) ==
    [type |-> "tool", content |-> content, tool_call_id |-> tool_call_id]

\* tool_call.get("id") or f"call_{tool_name}_{len(tool_results)}"; call ids are
\* numbered from 1, and 0 stands for a call without id
ToolCallId(tool_call, tool_name, n_results) ==
    IF tool_call.id # 0 THEN <<tool_call.id>>
    ELSE <<"call_", tool_name, "_", n_results>>

\* the index of the first tool of self.tools named tool_name, 0 when there is none
\* ("for tool in self.tools: if tool.name == tool_name: ... break")
FindTool(tools, tool_name) ==
    IF \E i \in 1..Len(tools) : tools[i] = tool_name
    THEN CHOOSE i \in 1..Len(tools) :
             tools[i] = tool_name /\ \A j \in 1..(i - 1) : tools[j] # tool_name
    ELSE 0

\* the body of the loop of _tools_node for one tool call: on a tool found and run, a
\* success record and a ToolMessage; on a tool that raises, a failure record; on a
\* name that matches no tool, nothing
ToolsNodeCall(state, tool_call, impl_outcome) ==
    LET tool_name == tool_call.name
        ran == ToolWrapper(tool_name, impl_outcome)
    IN  IF FindTool(CreateTools, tool_name) = 0 THEN state
        ELSE IF ran.raises
        THEN [state EXCEPT !.tool_results =
                 Append(@, [tool |-> tool_name, result |-> <<>>, error |-> <<ran.exc>>,
                            success |-> FALSE])]
        ELSE LET results == Append(state.tool_results,
                                [tool |-> tool_name, result |-> ran.value, error |-> <<>>,
                                 success |-> TRUE])
             IN  [state EXCEPT
                     !.tool_results = results,
                     !.messages = Append(@, ToolMessage(ran.value,
                                       ToolCallId(tool_call, tool_name, Len(results))))]

\* the for loop of _tools_node over last_message.tool_calls, in order;
\* impl_outcomes[i] is what the implementation does when call i invokes it
RECURSIVE ToolsNodeLoop(_, _, _)
ToolsNodeLoop(state, tool_calls, impl_outcomes) ==
    IF tool_calls = <<>> THEN state
    ELSE ToolsNodeLoop(ToolsNodeCall(state, Head(tool_calls), Head(impl_outcomes)),
                       Tail(tool_calls), Tail(impl_outcomes))

\* XcodeLangGraphAgent._tools_node
ToolsNode(state, impl_outcomes) ==
    LET last_message == state.messages[Len(state.messages)]
    IN  IF "tool_calls" \in DOMAIN last_message /\ last_message.tool_calls # <<>>
        THEN ToolsNodeLoop(state, last_message.tool_calls, impl_outcomes)
        ELSE state

\* XcodeLangGraphAgent._agent_node: the reasoning function's response is appended
AgentNode(state, response) == [state EXCEPT !.messages = Append(@, response)]

\* a _should_continue that never asks for the tools node
ShouldContinueEnd(state) == "end"

\* XcodeLangGraphAgent._should_continue
ShouldContinue(state) ==
    IF state.messages = <<>> THEN "end"
    ELSE LET last_message == state.messages[Len(state.messages)]
         IN  IF "tool_calls" \in DOMAIN last_message /\ last_message.tool_calls # <<>>
             THEN "continue"
             ELSE IF "function_calls" \in DOMAIN last_message
                     /\ last_message.function_calls # <<>>
             THEN "continue"
             ELSE "end"

\* a graph whose tools node has its edge to END
NextNodeToolsEnd(from, state) ==
    IF from = "agent"
    THEN (IF ShouldContinue(state) = "continue" THEN "tools" ELSE "end")
    ELSE "end"

\* the edges of _create_graph: the node that runs after `from`
NextNode(from, state) ==
    IF from = "agent"
    THEN (IF ShouldContinue(state) = "continue" THEN "tools" ELSE "end")
    ELSE "agent"

\* an initial state that carries over the tool results the graph state holds
InitialStateKeepingResults(prompt) ==
    [messages |-> <<HumanMessage(prompt)>>, tool_results |-> tool_results,
     current_task |-> prompt, context |-> <<>>]

\* initial_state of XcodeLangGraphAgent.run
InitialState(prompt) ==
    [messages |-> <<HumanMessage(prompt)>>, tool_results |-> <<>>,
     current_task |-> prompt, context |-> <<>>]


\* one turn of a scripted reasoning function and tools: the reasoning function raises or
\* returns `response`; impl_outcomes is what the implementations do when the tool calls
\* of `response` invoke them
Turn(raises, response, impl_outcomes) ==
    [raises |-> raises, response |-> response, impl_outcomes |-> impl_outcomes]

\* graph.ainvoke from node `n` after `steps` node executions, with turn i of `script`
\* next (the last turn repeats): the final state, or the exception that ends the run
RECURSIVE RunGraph(_, _, _, _, _)
RunGraph(state, n, steps, script, i) ==
    LET turn == script[IF i <= Len(script) THEN i ELSE Len(script)]
    IN  IF n = "end" THEN [raised |-> FALSE, exc |-> None, state |-> state]
        ELSE IF steps >= RecursionLimit
        THEN [raised |-> TRUE, exc |-> "GraphRecursionError", state |-> state]
        ELSE IF n = "agent"
        THEN (IF turn.raises
              THEN [raised |-> TRUE, exc |-> "LLMError", state |-> state]
              ELSE LET after == AgentNode(state, turn.response)
                   IN  RunGraph(after, NextNode("agent", after), steps + 1, script, i))
        ELSE RunGraph(ToolsNode(state, turn.impl_outcomes), NextNode("tools", state),
                      steps + 1, script, i + 1)

\* XcodeLangGraphAgent.run_sync: asyncio.run(self.run(prompt)); asyncio.run raises
\* RuntimeError when an event loop is already running in the thread, which is the
\* case inside the async HTTP and WebSocket handlers
RunSync(prompt, script, in_event_loop) ==
    IF in_event_loop
    THEN [raised |-> TRUE, exc |-> "RuntimeError", state |-> InitialState(prompt)]
    ELSE RunGraph(InitialState(prompt), "agent", 0, script, 1)

-----------------------------------------------------------------------------
(* Dispatcher: src/src/unified_mcp_server.py *)

\* Python None where a dict is expected (result, error, persona)
NoneObj == [py |-> "None"]

\* truth value of a dict-or-None: every dict the server passes here is non-empty
Truthy(x) == x # NoneObj

\* the state of one UnifiedMCPServer and of the module globals it uses
ServerState ==
    [initialized |-> initialized, tool_cache |-> tool_cache,
     response_cache |-> response_cache, lg_agent |-> lg_agent]

\* d[key] = value on a dict held as a function
DictPut(d, key, value) ==
    [k \in DOMAIN d \cup {key} |-> IF k = key THEN value ELSE d[k]]

\* what a handler did: the server state it leaves, its send_response calls in order,
\* the exception that escaped it (<<>> when none), the execute_tool calls it made,
\* whether it looked into a cache, and the time its tool execution took
Handled(srv, sends, raised, exec, cache_read, elapsed) ==
    [srv |-> srv, sends |-> sends, raised |-> raised, exec |-> exec,
     cache_read |-> cache_read, elapsed |-> elapsed]

\* the arguments of one send_response call
Send(id, result, error) == [id |-> id, result |-> result, error |-> error]

\* the error dicts of the dispatcher
RpcError(code, message) == [code |-> code, message |-> message]

\* the result of initialize
InitializeResult ==
    [protocolVersion |-> "2024-11-05",
     capabilities |-> IF langgraph_enabled THEN {"tools", "experimental"} ELSE {"tools"},
     serverInfo |-> [name |-> "xcode-mcp-unified", version |-> "2.0.0",
                     direct_tools |-> Cardinality(DOMAIN RegistryTools),
                     langgraph_enabled |-> langgraph_enabled,
                     subagentic_tools |-> IF langgraph_enabled THEN 3 ELSE 0]]

\* a handle_initialize that flips the flag instead of setting it
HandleInitializeToggle(srv, params, request_id) ==
    Handled([srv EXCEPT !.initialized = ~srv.initialized],
            <<Send(request_id, InitializeResult, NoneObj)>>, <<>>, <<>>, FALSE, 0)

\* UnifiedMCPServer.handle_initialize
HandleInitialize(srv, params, request_id) ==
    Handled([srv EXCEPT !.initialized = TRUE],
            <<Send(request_id, InitializeResult, NoneObj)>>, <<>>, <<>>, FALSE, 0)

\* the "examples"/"enum" entry _get_tool_schema_enhanced adds for some parameter names
PropExtras(param_name) ==
    CASE param_name = "project_path" -> <<"examples", "/path/to/MyApp.xcodeproj", "./MyApp.xcodeproj">>
      [] param_name = "scheme" -> <<"examples", "MyApp", "MyAppTests">>
      [] param_name = "device_name" -> <<"examples", "iPhone 15 Pro", "iPad Pro">>
      [] param_name = "bundle_id" -> <<"examples", "com.example.MyApp">>
      [] param_name = "configuration" -> <<"enum", "Debug", "Release">>
      [] OTHER -> <<>>

\* the schema built by _get_tool_schema_enhanced when the cache has no live entry
RenderSchema(tool_def) ==
    LET params == tool_def.parameters
        properties == [i \in 1..Len(params) |->
                          [name |-> params[i].name, type |-> params[i].type,
                           extras |-> PropExtras(params[i].name)]]
        required == SelectSeq([i \in 1..Len(params) |-> params[i]],
                              LAMBDA q : q.required)
        names == [i \in 1..Len(required) |-> required[i].name]
        inputSchema == IF names # <<>>
                       THEN [type |-> "object", properties |-> properties, required |-> names]
                       ELSE [type |-> "object", properties |-> properties]
    IN  [name |-> tool_def.name, description |-> tool_def.description,
         inputSchema |-> inputSchema]

\* UnifiedMCPServer._get_tool_schema_enhanced at time t: the schema and the cache after
GetToolSchemaEnhanced(tool_def, cache, t) ==
    LET cache_key == <<"schema_", tool_def.name>>
    IN  IF cache_key \in DOMAIN cache /\ t - cache[cache_key][1] < CacheTTL
        THEN [schema |-> cache[cache_key][2], cache |-> cache]
        ELSE [schema |-> RenderSchema(tool_def),
              cache |-> DictPut(cache, cache_key, <<t, RenderSchema(tool_def)>>)]

\* the loop of handle_tools_list over registry.list_tools(): the schemas so far and the
\* cache so far
RECURSIVE ListSchemas(_, _, _, _)
ListSchemas(defs, tools, cache, t) ==
    IF defs = <<>> THEN [tools |-> tools, cache |-> cache]
    ELSE LET got == GetToolSchemaEnhanced(Head(defs), cache, t)
         IN  ListSchemas(Tail(defs), Append(tools, got.schema), got.cache, t)

\* the three subagentic tool schemas handle_tools_list adds
LangGraphToolSchemas ==
    << [name |-> "langgraph_agent", required |-> <<"prompt">>],
       [name |-> "langgraph_workflow", required |-> <<"workflow">>],
       [name |-> "langgraph_status", required |-> <<>>] >>

\* UnifiedMCPServer.handle_tools_list at time t
HandleToolsList(srv, request_id, t) ==
    LET listed == ListSchemas(ListTools, <<>>, srv.tool_cache, t)
        tools == IF langgraph_enabled THEN listed.tools \o LangGraphToolSchemas
                 ELSE listed.tools
    IN  Handled([srv EXCEPT !.tool_cache = listed.cache],
                <<Send(request_id, [tools |-> tools], NoneObj)>>, <<>>, <<>>, TRUE, 0)


\* the content envelope of a tool result
Envelope(text) == [content |-> << [type |-> "text", text |-> text] >>]

\* cache_key = f"tool_{tool_name}_{json.dumps(arguments, sort_keys=True)}"
CacheKey(tool_name, arguments) == <<"tool_", tool_name, "_", JsonDumpsSorted(arguments)>>

\* a liveness test that still serves an entry whose age equals the TTL
CacheLiveInclusive(cache, cache_key, t) ==
    cache_key \in DOMAIN cache /\ t - cache[cache_key][1] <= CacheTTL

\* "cache_key in self._response_cache" and "time.time() - cached_time < self._cache_ttl"
CacheLive(cache, cache_key, t) ==
    cache_key \in DOMAIN cache /\ t - cache[cache_key][1] < CacheTTL

\* tool_name.startswith("langgraph_"), over the tool names of the model
StartsWithLangGraph(tool_name) ==
    tool_name \in {"langgraph_agent", "langgraph_workflow", "langgraph_status",
                   "langgraph_query"}

\* model = arguments.get("model", "ollama:qwen3-coder:30b")
DefaultModel == "ollama:qwen3-coder:30b"

\* _get_langgraph_agent(model): the agent returned ("none" for None) and the global after;
\* create_ok says whether create_langgraph_agent succeeds
GetLangGraphAgent(srv, model, create_ok) ==
    IF langgraph_enabled /\ srv.lg_agent = "none"
    THEN (IF create_ok
          THEN [agent |-> model, srv |-> [srv EXCEPT !.lg_agent = model]]
          ELSE [agent |-> "none", srv |-> srv])
    ELSE [agent |-> srv.lg_agent, srv |-> srv]

\* the except branch of _handle_langgraph_tool
LangGraphFailed(srv, request_id, exc, exec) ==
    Handled(srv, <<Send(request_id, NoneObj,
                        RpcError(-32000, <<"Tool execution failed: ", exc>>))>>,
            <<>>, exec, FALSE, 0)

\* the agent "langgraph_agent" and "langgraph_workflow" obtain: a new one when a persona
\* is given, the shared one otherwise; create_langgraph_agent may raise
ObtainAgent(srv, model, persona_config, create_ok) ==
    IF Truthy(persona_config)
    THEN [raised |-> ~create_ok, agent |-> IF create_ok THEN model ELSE "none", srv |-> srv]
    ELSE LET got == GetLangGraphAgent(srv, model, create_ok)
         IN  [raised |-> FALSE, agent |-> got.agent, srv |-> got.srv]

\* the record of one run_sync call
Ran(agent, prompt, run) ==
    <<[kind |-> "run_sync", agent |-> agent, prompt |-> prompt, raised |-> run.raised]>>

\* an answer of "langgraph_agent" that also stores its envelope in the result cache
AgentResponseCached(srv, request_id, agent, prompt, run) ==
    LET msgs == run.state.messages
        results == run.state.tool_results
        response == Envelope(<<"json",
                        [response |-> msgs[Len(msgs)].content,
                         tool_results |-> results,
                         messages_count |-> Len(msgs),
                         steps_executed |-> Len(results)]>>)
    IN  IF run.raised
        THEN LangGraphFailed(srv, request_id, run.exc, Ran(agent, prompt, run))
        ELSE Handled([srv EXCEPT !.response_cache =
                          DictPut(@, CacheKey("langgraph_agent", <<>>), <<0, response>>)],
                     <<Send(request_id, response, NoneObj)>>,
                     <<>>, Ran(agent, prompt, run), FALSE, 0)

\* _handle_langgraph_tool, "langgraph_agent", from the return of agent.run_sync on: the
\* final message and the tool results go into the content envelope; an exception of
\* run_sync goes to the except branch
AgentResponse(srv, request_id, agent, prompt, run) ==
    LET msgs == run.state.messages
        results == run.state.tool_results
    IN  IF run.raised
        THEN LangGraphFailed(srv, request_id, run.exc, Ran(agent, prompt, run))
        ELSE Handled(srv,
                 <<Send(request_id,
                        Envelope(<<"json",
                            [response |-> msgs[Len(msgs)].content,
                             tool_results |-> results,
                             messages_count |-> Len(msgs),
                             steps_executed |-> Len(results)]>>),
                        NoneObj)>>,
                 <<>>, Ran(agent, prompt, run), FALSE, 0)

\* UnifiedMCPServer._handle_langgraph_tool
HandleLangGraphTool(srv, tool_name, arguments, request_id, env, in_event_loop) ==
    IF tool_name = "langgraph_agent"
    THEN LET prompt == DictGet(arguments, "prompt", None)
             model == DictGet(arguments, "model", DefaultModel)
             got == ObtainAgent(srv, model, DictGet(arguments, "persona", NoneObj),
                                env.create_ok)
         IN  IF prompt = None \/ prompt = ""
             THEN LangGraphFailed(srv, request_id, "prompt is required", <<>>)
             ELSE IF got.raised
             THEN LangGraphFailed(got.srv, request_id, "create_langgraph_agent", <<>>)
             ELSE IF got.agent = "none"
             THEN LangGraphFailed(got.srv, request_id,
                                  "LangGraph agent could not be created", <<>>)
             ELSE AgentResponse(got.srv, request_id, got.agent, prompt,
                                RunSync(prompt, env.script, in_event_loop))
    ELSE IF tool_name = "langgraph_workflow"
    THEN LET workflow == DictGet(arguments, "workflow", None)
             got == ObtainAgent(srv, DefaultModel, DictGet(arguments, "persona", NoneObj),
                                env.create_ok)
             run == RunSync(workflow, env.script, in_event_loop)
             ran == Ran(got.agent, workflow, run)
         IN  IF workflow = None \/ workflow = ""
             THEN LangGraphFailed(srv, request_id, "workflow is required", <<>>)
             ELSE IF got.raised
             THEN LangGraphFailed(got.srv, request_id, "create_langgraph_agent", <<>>)
             ELSE IF got.agent = "none"
             THEN LangGraphFailed(got.srv, request_id,
                                  "LangGraph agent could not be created", <<>>)
             ELSE IF run.raised
             THEN LangGraphFailed(got.srv, request_id, run.exc, ran)
             \* json.dumps({"workflow": ..., "result": result, ...}): result holds the
             \* message objects of the final state, which json.dumps cannot serialise
             ELSE LangGraphFailed(got.srv, request_id, "TypeError", ran)
    ELSE IF tool_name = "langgraph_status"
    THEN LET got == GetLangGraphAgent(srv, DefaultModel, env.create_ok)
         IN  Handled(got.srv,
                 <<Send(request_id,
                        Envelope(<<"json",
                            [agent_type |-> "LangGraph",
                             model |-> IF got.agent # "none" THEN got.agent
                                       ELSE "not_initialized",
                             available_tools |-> Cardinality(DOMAIN RegistryTools),
                             langgraph_tools |-> IF got.agent # "none"
                                                 THEN Len(CreateTools) ELSE 0,
                             langgraph_enabled |-> langgraph_enabled]>>),
                        NoneObj)>>,
                 <<>>, <<>>, FALSE, 0)
    ELSE Handled(srv, <<Send(request_id, NoneObj,
                             RpcError(-32601, <<"Unknown LangGraph tool: ", tool_name>>))>>,
                 <<>>, <<>>, FALSE, 0)

\* a handle_tools_call that stores the error of a Failure in the result cache
HandleToolsCallCachingFailures(srv, params, request_id, t, env, in_event_loop) ==
    LET tool_name == DictGet(params, "name", None)
        arguments == DictGet(params, "arguments", <<>>)
        cache_key == CacheKey(tool_name, arguments)
        call == CallExecuteTool(tool_name, arguments, env.impl_outcome)
        exec == <<[kind |-> "execute_tool", tool |-> tool_name, arguments |-> arguments,
                   raised |-> call.raised, invoked |-> call.invoked,
                   outcome |-> call.outcome]>>
        response == IF call.outcome.success THEN Envelope(JsonDumps(call.outcome.result))
                    ELSE Envelope(call.outcome.error)
    IN  IF tool_name = None \/ tool_name = ""
        THEN Handled(srv, <<Send(request_id, NoneObj,
                                 RpcError(-32602, <<"Invalid params: tool name required">>))>>,
                     <<>>, <<>>, FALSE, 0)
        ELSE IF StartsWithLangGraph(tool_name)
        THEN (IF ~langgraph_enabled
              THEN Handled(srv, <<Send(request_id, NoneObj,
                                       RpcError(-32001, <<"LangGraph not available. Install with: pip install langgraph langchain">>))>>,
                           <<>>, <<>>, FALSE, 0)
              ELSE HandleLangGraphTool(srv, tool_name, arguments, request_id, env,
                                       in_event_loop))
        ELSE IF CacheLive(srv.response_cache, cache_key, t)
        THEN Handled(srv, <<Send(request_id, srv.response_cache[cache_key][2], NoneObj)>>,
                     <<>>, <<>>, TRUE, 0)
        ELSE IF call.raised
        THEN Handled(srv, <<>>, call.exc, exec, TRUE, env.elapsed)
        ELSE IF call.outcome.success /\ call.outcome.result = Unserializable
        THEN Handled(srv, <<>>, <<"TypeError">>, exec, TRUE, env.elapsed)
        ELSE Handled([srv EXCEPT !.response_cache =
                          DictPut(@, cache_key, <<t + env.elapsed, response>>)],
                     <<IF call.outcome.success THEN Send(request_id, response, NoneObj)
                       ELSE Send(request_id, NoneObj,
                                 RpcError(-32000, call.outcome.error))>>,
                     <<>>, exec, TRUE, env.elapsed)

\* UnifiedMCPServer.handle_tools_call at time t; env is what the environment does during
\* the call: the implementation's behaviour, the time the execution takes, the scripted
\* reasoning function and whether an agent can be created
HandleToolsCall(srv, params, request_id, t, env, in_event_loop) ==
    LET tool_name == DictGet(params, "name", None)
        arguments == DictGet(params, "arguments", <<>>)
        cache_key == CacheKey(tool_name, arguments)
        call == CallExecuteTool(tool_name, arguments, env.impl_outcome)
        exec == <<[kind |-> "execute_tool", tool |-> tool_name, arguments |-> arguments,
                   raised |-> call.raised, invoked |-> call.invoked,
                   outcome |-> call.outcome]>>
        response == Envelope(JsonDumps(call.outcome.result))
    IN  IF tool_name = None \/ tool_name = ""
        THEN Handled(srv, <<Send(request_id, NoneObj,
                                 RpcError(-32602, <<"Invalid params: tool name required">>))>>,
                     <<>>, <<>>, FALSE, 0)
        ELSE IF StartsWithLangGraph(tool_name)
        THEN (IF ~langgraph_enabled
              THEN Handled(srv, <<Send(request_id, NoneObj,
                                       RpcError(-32001, <<"LangGraph not available. Install with: pip install langgraph langchain">>))>>,
                           <<>>, <<>>, FALSE, 0)
              ELSE HandleLangGraphTool(srv, tool_name, arguments, request_id, env,
                                       in_event_loop))
        ELSE IF CacheLive(srv.response_cache, cache_key, t)
        THEN Handled(srv, <<Send(request_id, srv.response_cache[cache_key][2], NoneObj)>>,
                     <<>>, <<>>, TRUE, 0)
        ELSE IF call.raised
        THEN Handled(srv, <<>>, call.exc, exec, TRUE, env.elapsed)
        ELSE IF ~call.outcome.success
        THEN Handled(srv, <<Send(request_id, NoneObj,
                                 RpcError(-32000, call.outcome.error))>>,
                     <<>>, exec, TRUE, env.elapsed)
        ELSE IF call.outcome.result = Unserializable
        THEN Handled(srv, <<>>, <<"TypeError">>, exec, TRUE, env.elapsed)
        ELSE Handled([srv EXCEPT !.response_cache =
                          DictPut(@, cache_key, <<t + env.elapsed, response>>)],
                     <<Send(request_id, response, NoneObj)>>,
                     <<>>, exec, TRUE, env.elapsed)

\* the not-initialized error of handle_request and of the network handlers
NotInitialized == RpcError(-32002, <<"Server not initialized">>)

\* the unknown-method error of handle_request and of the network handlers
MethodNotFound(method) == RpcError(-32601, <<"Method not found: ", method>>)

\* a handle_request that lets tools/list and tools/call through before initialize
HandleRequestUngated(srv, request, t, env) ==
    LET method == IF "method" \in DOMAIN request THEN request.method ELSE None
        params == IF "params" \in DOMAIN request THEN request.params ELSE <<>>
        request_id == IF "id" \in DOMAIN request THEN request.id ELSE None
    IN  IF method = "initialize" THEN HandleInitialize(srv, params, request_id)
        ELSE IF method = "tools/list" THEN HandleToolsList(srv, request_id, t)
        ELSE IF method = "tools/call"
        THEN HandleToolsCall(srv, params, request_id, t, env, FALSE)
        ELSE IF method = "notifications/initialized"
        THEN Handled(srv, <<>>, <<>>, <<>>, FALSE, 0)
        ELSE Handled(srv, <<Send(request_id, NoneObj, MethodNotFound(method))>>,
                     <<>>, <<>>, FALSE, 0)

\* UnifiedMCPServer.handle_request
HandleRequest(srv, request, t, env) ==
    LET method == IF "method" \in DOMAIN request THEN request.method ELSE None
        params == IF "params" \in DOMAIN request THEN request.params ELSE <<>>
        request_id == IF "id" \in DOMAIN request THEN request.id ELSE None
    IN  IF method = "initialize" THEN HandleInitialize(srv, params, request_id)
        ELSE IF method = "tools/list"
        THEN (IF ~srv.initialized
              THEN Handled(srv, <<Send(request_id, NoneObj, NotInitialized)>>,
                           <<>>, <<>>, FALSE, 0)
              ELSE HandleToolsList(srv, request_id, t))
        ELSE IF method = "tools/call"
        THEN (IF ~srv.initialized
              THEN Handled(srv, <<Send(request_id, NoneObj, NotInitialized)>>,
                           <<>>, <<>>, FALSE, 0)
              ELSE HandleToolsCall(srv, params, request_id, t, env, FALSE))
        ELSE IF method = "notifications/initialized"
        THEN Handled(srv, <<>>, <<>>, <<>>, FALSE, 0)
        ELSE Handled(srv, <<Send(request_id, NoneObj, MethodNotFound(method))>>,
                     <<>>, <<>>, FALSE, 0)


-----------------------------------------------------------------------------
(* Responses *)

\* a response dict that always carries "result", next to "error" when there is one
ResponseDictBoth(id, result, error) ==
    LET head == IF id # None THEN [jsonrpc |-> "2.0", id |-> id] ELSE [jsonrpc |-> "2.0"]
    IN  IF Truthy(error) THEN head @@ ("error" :> error) @@ ("result" :> result)
        ELSE head @@ ("result" :> result)

\* the response dict send_response and capture_response build
ResponseDict(id, result, error) ==
    LET head == IF id # None THEN [jsonrpc |-> "2.0", id |-> id] ELSE [jsonrpc |-> "2.0"]
    IN  IF Truthy(error) THEN head @@ ("error" :> error) ELSE head @@ ("result" :> result)

\* UnifiedMCPServer.send_response: the line written to stdout
SendResponse(id, result, error) == ResponseDict(id, result, error)

\* MCPResponseCapture.capture_response: the dict stored in last_response, handed to the
\* callback and returned
CaptureResponse(id, result, error) == ResponseDict(id, result, error)

\* a message a transport puts on the wire: the channel, the HTTP status (0 off HTTP)
\* and the JSON body
Wire(chan, status, body) == [chan |-> chan, status |-> status, body |-> body]

\* what the last handled input did: the transport action, the channel, the input, whether
\* the session was initialized before, the messages put on the wire, the execute_tool
\* and run_sync calls, whether a cache was looked into, and what the handler started
\* with: the time, the result cache and the shared agent; init_by is the channel whose
\* input took the session from uninitialized to initialized, <<>> while there is none
Step(op, chan, input, was_initialized, is_initialized, emitted, exec, cache_read) ==
    [op |-> op, chan |-> chan, input |-> input, was_initialized |-> was_initialized,
     emitted |-> emitted, exec |-> exec, cache_read |-> cache_read,
     at |-> now, cache_before |-> response_cache, agent_before |-> lg_agent,
     init_by |-> IF was_initialized THEN step.init_by
                 ELSE IF is_initialized THEN chan ELSE <<>>]

NoStep ==
    [op |-> "none", chan |-> "none", input |-> [kind |-> "none"], was_initialized |-> FALSE,
     emitted |-> <<>>, exec |-> <<>>, cache_read |-> FALSE,
     at |-> 0, cache_before |-> <<>>, agent_before |-> "none", init_by |-> <<>>]

-----------------------------------------------------------------------------
(* Line transport: UnifiedMCPServer.run *)

\* request = json.loads(line) for a line that holds a JSON object
JsonLoads(line) == line.value

\* the send_response calls of a handler as written to stdout
SentBy(h) ==
    [i \in 1..Len(h.sends) |->
        SendResponse(h.sends[i].id, h.sends[i].result, h.sends[i].error)]

\* the lines run() writes for one handle_request call: what the handler sent and,
\* when it raised, the -32603 line of "except Exception"
WrittenBy(h) ==
    IF h.raised # <<>>
    THEN Append(SentBy(h), SendResponse(None, NoneObj,
                               RpcError(-32603, <<"Internal error: ">> \o h.raised)))
    ELSE SentBy(h)

\* the handler's effects together with the lines written for it
LineHandled(h) == [h |-> h, written |-> WrittenBy(h)]

\* a loop body that writes nothing when the handler raises
RunLineSilent(srv, line, t, env) ==
    IF line.kind = "garbage"
    THEN [h |-> Handled(srv, <<>>, <<>>, <<>>, FALSE, 0),
          written |-> <<SendResponse(None, NoneObj,
                                     RpcError(-32700, <<"Parse error: ", "JSONDecodeError">>))>>]
    ELSE IF line.kind = "nonobject"
    THEN [h |-> Handled(srv, <<>>, <<"AttributeError">>, <<>>, FALSE, 0), written |-> <<>>]
    ELSE LET h == HandleRequest(srv, JsonLoads(line), t, env)
         IN  [h |-> h, written |-> SentBy(h)]

\* a loop body that skips a line that is not JSON as it skips a blank one
RunLineSkippingGarbage(srv, line, t, env) ==
    IF line.kind = "garbage"
    THEN [h |-> Handled(srv, <<>>, <<>>, <<>>, FALSE, 0), written |-> <<>>]
    ELSE IF line.kind = "nonobject"
    THEN LineHandled(Handled(srv, <<>>, <<"AttributeError">>, <<>>, FALSE, 0))
    ELSE LineHandled(HandleRequest(srv, JsonLoads(line), t, env))

\* the body of the for loop of run() for one non-blank line at time t: the handler's
\* effects and the lines written to stdout
RunLine(srv, line, t, env) ==
    IF line.kind = "garbage"
    THEN [h |-> Handled(srv, <<>>, <<>>, <<>>, FALSE, 0),
          written |-> <<SendResponse(None, NoneObj,
                                     RpcError(-32700, <<"Parse error: ", "JSONDecodeError">>))>>]
    ELSE IF line.kind = "nonobject"
    THEN LineHandled(Handled(srv, <<>>, <<"AttributeError">>, <<>>, FALSE, 0))
    ELSE LineHandled(HandleRequest(srv, JsonLoads(line), t, env))


-----------------------------------------------------------------------------
(* Network transports: src/src/mcp_http_server.py with src/src/mcp_http_wrapper.py *)

\* the send_response calls of a handler as captured by capture_send_response
Captured(h) ==
    [i \in 1..Len(h.sends) |->
        CaptureResponse(h.sends[i].id, h.sends[i].result, h.sends[i].error)]

\* a handler that was not called
NotCalled(srv) == Handled(srv, <<>>, <<>>, <<>>, FALSE, 0)

\* the internal-error body of the network handlers' "except Exception"
InternalError(raised) == RpcError(-32603, <<"Internal error: ">> \o raised)

\* mcp_http after the handler call: the 500 reply when it raised, else the captured
\* response, else the fallback
HttpHandled(request_id, h) ==
    IF h.raised # <<>>
    THEN [h |-> h, captured |-> Captured(h),
          reply |-> Wire(<<"http">>, 500,
                         [jsonrpc |-> "2.0", error |-> InternalError(h.raised),
                          id |-> request_id])]
    ELSE IF Captured(h) # <<>>
    THEN [h |-> h, captured |-> Captured(h),
          reply |-> Wire(<<"http">>, 200, Captured(h)[Len(h.sends)])]
    ELSE [h |-> h, captured |-> Captured(h),
          reply |-> Wire(<<"http">>, 200,
                         [jsonrpc |-> "2.0", result |-> [status |-> "processed"],
                          id |-> request_id])]

\* mcp_http for a request body the MCPRequest model accepts, at time t: the handler's
\* effects, the captured responses and the HTTP reply
McpHttp(srv, request, t, env) ==
    LET method == request.method
        params == IF "params" \in DOMAIN request THEN request.params ELSE <<>>
        request_id == IF "id" \in DOMAIN request THEN request.id ELSE None
    IN  IF method \in {"tools/list", "tools/call"} /\ ~srv.initialized
        THEN [h |-> NotCalled(srv), captured |-> <<>>,
              reply |-> Wire(<<"http">>, 400,
                             [jsonrpc |-> "2.0", error |-> NotInitialized, id |-> request_id])]
        ELSE IF method = "initialize"
        THEN HttpHandled(request_id, HandleInitialize(srv, params, request_id))
        ELSE IF method = "tools/list"
        THEN HttpHandled(request_id, HandleToolsList(srv, request_id, t))
        ELSE IF method = "tools/call"
        THEN HttpHandled(request_id, HandleToolsCall(srv, params, request_id, t, env, TRUE))
        ELSE IF method = "notifications/initialized"
        THEN [h |-> NotCalled(srv), captured |-> <<>>,
              reply |-> Wire(<<"http">>, 200, [jsonrpc |-> "2.0", result |-> NoneObj])]
        ELSE [h |-> NotCalled(srv), captured |-> <<>>,
              reply |-> Wire(<<"http">>, 404,
                             [jsonrpc |-> "2.0", error |-> MethodNotFound(method),
                              id |-> request_id])]

\* handle_message after the handler call (none for the notification): the
\* internal-error message when it raised, else the captured response, else the fallback
WsHandled(chan, request_id, h) ==
    IF h.raised # <<>>
    THEN [h |-> h, captured |-> Captured(h),
          reply |-> Wire(chan, 0, [jsonrpc |-> "2.0", error |-> InternalError(h.raised)])]
    ELSE IF Captured(h) # <<>>
    THEN [h |-> h, captured |-> Captured(h),
          reply |-> Wire(chan, 0, Captured(h)[Len(h.sends)])]
    ELSE [h |-> h, captured |-> Captured(h),
          reply |-> Wire(chan, 0,
                         [jsonrpc |-> "2.0", result |-> [status |-> "processed"],
                          id |-> request_id])]

\* MCPWebSocketHandler.handle_message for one text message on connection chan at time t:
\* the handler's effects, the captured responses and the message sent back
WsHandleMessage(srv, chan, message, t, env) ==
    IF message.kind = "garbage"
    THEN [h |-> NotCalled(srv), captured |-> <<>>,
          reply |-> Wire(chan, 0, [jsonrpc |-> "2.0",
                                   error |-> RpcError(-32700, <<"Parse error">>)])]
    ELSE IF message.kind = "nonobject"
    THEN [h |-> NotCalled(srv), captured |-> <<>>,
          reply |-> Wire(chan, 0,
                         [jsonrpc |-> "2.0", error |-> InternalError(<<"AttributeError">>)])]
    ELSE
    LET request == JsonLoads(message)
        method == IF "method" \in DOMAIN request THEN request.method ELSE None
        params == IF "params" \in DOMAIN request THEN request.params ELSE <<>>
        request_id == IF "id" \in DOMAIN request THEN request.id ELSE None
    IN  IF method \in {"tools/list", "tools/call"} /\ ~srv.initialized
        THEN [h |-> NotCalled(srv), captured |-> <<>>,
              reply |-> Wire(chan, 0,
                             [jsonrpc |-> "2.0", error |-> NotInitialized, id |-> request_id])]
        ELSE IF method = "initialize"
        THEN WsHandled(chan, request_id, HandleInitialize(srv, params, request_id))
        ELSE IF method = "tools/list"
        THEN WsHandled(chan, request_id, HandleToolsList(srv, request_id, t))
        ELSE IF method = "tools/call"
        THEN WsHandled(chan, request_id,
                       HandleToolsCall(srv, params, request_id, t, env, TRUE))
        ELSE IF method = "notifications/initialized"
        THEN WsHandled(chan, request_id, NotCalled(srv))
        ELSE [h |-> NotCalled(srv), captured |-> <<>>,
              reply |-> Wire(chan, 0,
                             [jsonrpc |-> "2.0", error |-> MethodNotFound(method),
                              id |-> request_id])]


-----------------------------------------------------------------------------
(* Inputs *)

\* the clock advances in steps of half the TTL, so that an entry is seen at ages
\* 0, TTL/2 (live) and TTL (no longer live)
TickStep == CacheTTL \div 2

\* a JSON-RPC request object with the given method, optional params and optional id
MkRequest(method, params, id) ==
    LET m == IF method = None THEN [jsonrpc |-> "2.0"]
             ELSE [jsonrpc |-> "2.0", method |-> method]
        p == IF params = None THEN m ELSE m @@ ("params" :> params)
    IN  IF id = None THEN p ELSE p @@ ("id" :> id)

\* params of tools/call
CallParams(name, arguments) == << <<"name", name>>, <<"arguments", arguments>> >>

ArgsAB == << <<"a", "x">>, <<"b", "y">> >>
ArgsBA == << <<"b", "y">>, <<"a", "x">> >>

\* the params of the direct tools/call requests of the model
DirectCalls ==
    { CallParams("check_xcode_cli", <<>>),
      CallParams("list_projects", ArgsAB),
      CallParams("list_projects", ArgsBA),
      CallParams("export_archive", <<>>),
      CallParams("nonexistent_tool", <<>>),
      CallParams("nonexistent_tool", << <<"tool_name", "x">> >>),
      CallParams("export_archive", << <<"tool_name", "x">> >>),
      << <<"arguments", <<>>>> >> }

\* the params of the subagentic tools/call requests of the model
LangGraphCalls ==
    { CallParams("langgraph_agent", <<>>),
      CallParams("langgraph_agent", << <<"prompt", "p1">> >>),
      CallParams("langgraph_agent", << <<"prompt", "p2">>, <<"model", "openai:gpt-4">> >>),
      CallParams("langgraph_workflow", << <<"workflow", "w1">> >>),
      CallParams("langgraph_status", <<>>),
      CallParams("langgraph_query", << <<"prompt", "p1">> >>) }

\* the request objects clients send: every method and every tools/call with id "1",
\* some of them also without id and with id "2"
Requests ==
    { MkRequest(m, None, "1") :
        m \in {"initialize", "tools/list", "notifications/initialized", "resources/list"} }
    \cup { MkRequest("tools/call", p, "1") : p \in DirectCalls \cup LangGraphCalls }
    \cup { MkRequest(m, None, None) : m \in {"initialize", "notifications/initialized"} }
    \cup { MkRequest("tools/list", None, "2"),
           MkRequest("tools/call", CallParams("check_xcode_cli", <<>>), None),
           MkRequest("tools/call", CallParams("list_projects", ArgsBA), "2"),
           MkRequest("tools/call", None, "1") }

\* the requests of the runs in which time passes: the session is opened, the tools are
\* listed and direct tools are called
TimedRequests ==
    { MkRequest(m, None, "1") : m \in {"initialize", "tools/list"} }
    \cup { MkRequest("tools/call", p, "1") :
             p \in { CallParams("check_xcode_cli", <<>>),
                     CallParams("list_projects", ArgsAB),
                     CallParams("list_projects", ArgsBA),
                     CallParams("export_archive", <<>>) } }

\* a line of stdin or a WebSocket text message
Blank == [kind |-> "blank"]
Garbage == [kind |-> "garbage"]
NonObject == [kind |-> "nonobject"]
Json(request) == [kind |-> "json", value |-> request]

\* the texts a WebSocket client sends; a JSON object may lack "method"
Messages == {Garbage, NonObject, Json(MkRequest(None, None, "1"))}
            \cup {Json(r) : r \in Requests}

\* the lines stdin delivers
Lines == {Blank} \cup Messages

\* the request bodies the MCPRequest model accepts ("method" is required)
HttpBodies == Requests

\* reasoning outputs and scripts for the subagentic tools
AIMessage(content, tool_calls) ==
    [type |-> "ai", content |-> <<content>>, tool_calls |-> tool_calls]

ToolCall(name, id) == [name |-> name, args |-> <<>>, id |-> id]

Returns(v) == [raises |-> FALSE, value |-> v, exc |-> None]
Raises == [raises |-> TRUE, value |-> None, exc |-> "boom"]

Scripts ==
    { <<Turn(FALSE, AIMessage("done", <<>>), <<>>)>>,
      <<Turn(TRUE, AIMessage("", <<>>), <<>>)>>,
      <<Turn(FALSE, AIMessage("", <<ToolCall("check_xcode_cli", 1)>>), <<Returns("v1")>>)>>,
      <<Turn(FALSE, AIMessage("", <<ToolCall("check_xcode_cli", 1),
                                    ToolCall("clean_build", 2),
                                    ToolCall("list_projects", 0)>>),
             <<Raises, Returns("v1"), Returns("v2")>>),
        Turn(FALSE, AIMessage("done", <<>>), <<>>)>> }

\* an environment that is not consulted
NoEnv == [impl_outcome |-> Returns("v1"), elapsed |-> 0, script |-> <<>>, create_ok |-> TRUE]

\* what the environment can do while `request` is handled, as far as the handler
\* consults it: the implementation's behaviour and the duration of its execution for a
\* direct call of a bound tool, the creation of the agent and the scripted reasoning
\* function for a subagentic call (the script only where run_sync can start the graph);
\* `timed` says whether the execution of a tool may take time
EnvsFor(request, timed) ==
    LET params == IF "params" \in DOMAIN request THEN request.params ELSE <<>>
        name == DictGet(params, "name", None)
        arguments == DictGet(params, "arguments", <<>>)
    IN  IF "method" \notin DOMAIN request \/ request.method # "tools/call" \/ name = None
        THEN {NoEnv}
        ELSE IF name \in {"langgraph_agent", "langgraph_workflow"}
        THEN {[NoEnv EXCEPT !.script = sc, !.create_ok = ok] :
                 sc \in IF transport = "stdio" /\ arguments # <<>>
                        THEN Scripts ELSE {<<Turn(TRUE, AIMessage("", <<>>), <<>>)>>},
                 ok \in BOOLEAN}
        ELSE IF StartsWithLangGraph(name)
        THEN {[NoEnv EXCEPT !.create_ok = ok] : ok \in BOOLEAN}
        ELSE IF GetToolImplementation(name) = None
        THEN {NoEnv}
        ELSE {[NoEnv EXCEPT !.impl_outcome = o, !.elapsed = e] :
                 o \in ImplOutcomes,
                 e \in IF timed /\ ticks < MaxTicks THEN {0, TickStep} ELSE {0}}

EnvsForText(text, timed) ==
    IF text.kind = "json" THEN EnvsFor(text.value, timed) ELSE {NoEnv}

-----------------------------------------------------------------------------
(* The server process *)

\* REQUIRE_AUTH and API_KEY as read from an environment that sets neither variable
DefaultAuth == [REQUIRE_AUTH |-> FALSE, API_KEY |-> ""]

\* the configurations of the gate: enforcement on or off, a secret configured or not
AuthConfigs == {[REQUIRE_AUTH |-> r, API_KEY |-> k] : r \in BOOLEAN, k \in {"", "secret"}}

\* what a client presents as X-API-Key header or api_key query parameter: nothing, the
\* secret, or something else
Credentials == {None, "secret", "wrong"}

\* a verify_api_key that lets every request with a non-empty header pass
VerifyApiKeyAnyKey(x_api_key) ==
    IF ~auth.REQUIRE_AUTH THEN 200
    ELSE IF auth.API_KEY = "" THEN 200
    ELSE IF x_api_key \in {None, ""} THEN 401
    ELSE 200

\* verify_api_key: the HTTP status the dependency leads to, 200 when it returns True
VerifyApiKey(x_api_key) ==
    IF ~auth.REQUIRE_AUTH THEN 200
    ELSE IF auth.API_KEY = "" THEN 200
    ELSE IF x_api_key \in {None, ""} THEN 401
    ELSE IF x_api_key # auth.API_KEY THEN 403
    ELSE 200

\* websocket_endpoint: the check made after accept(); FALSE closes the connection
WsKeyAccepted(api_key) ==
    ~(auth.REQUIRE_AUTH /\ auth.API_KEY # "") \/ api_key = auth.API_KEY

\* a POST /mcp request: its body and its X-API-Key header
HttpInput(request, x_api_key) ==
    [kind |-> "json", value |-> request, x_api_key |-> x_api_key]

\* the registry after ToolRegistry.__init__: every module of the list is processed
RegistryLoaded ==
    /\ tool_modules = ToolModules
    /\ implementations = Implementations
    /\ loaded = Len(ToolModules)

AgentIdle ==
    /\ messages = <<>>
    /\ tool_results = <<>>
    /\ node = "idle"
    /\ supersteps = 0
    /\ run_exc = None

\* UnifiedMCPServer.__init__ (and create_network_mcp_server for the network process)
\* LLMService.__init__: self.config.get("provider", "ollama") of the default configuration
DefaultProvider == "ollama"

\* no tool has run a process and the LLM service has the provider of its configuration
ToolsIdle ==
    /\ current_provider = DefaultProvider
    /\ subprocess_outcome = "none"

Init ==
    /\ transport \in {"stdio", "network"}
    /\ initialized = FALSE
    /\ langgraph_enabled \in BOOLEAN
    /\ lg_agent = "none"
    /\ tool_cache = <<>>
    /\ response_cache = <<>>
    /\ now = 0
    /\ ticks = 0
    /\ pc = "read"
    /\ cur_line = Blank
    /\ received = 0
    /\ answered = <<>>
    /\ conns = {}
    /\ last_response = NoneObj
    /\ step = NoStep
    /\ auth = DefaultAuth
    /\ ws_keys = <<>>
    /\ pending = {}
    /\ executing = {}
    /\ RegistryLoaded
    /\ AgentIdle
    /\ ToolsIdle

\* the handler's effects on the server object, the module globals and the clock
Commit(h) ==
    /\ initialized' = h.srv.initialized
    /\ tool_cache' = h.srv.tool_cache
    /\ response_cache' = h.srv.response_cache
    /\ lg_agent' = h.srv.lg_agent
    /\ now' = now + h.elapsed
    /\ ticks' = IF h.elapsed > 0 THEN ticks + 1 ELSE ticks

\* time passes between two inputs
Tick ==
    /\ ticks < MaxTicks
    /\ now' = now + TickStep
    /\ ticks' = ticks + 1
    /\ UNCHANGED <<transport, initialized, langgraph_enabled, lg_agent, tool_cache,
                   response_cache, pc, cur_line, received, answered, conns,
                   last_response, step>>
    /\ UNCHANGED agentVars
    /\ UNCHANGED toolVars
    /\ UNCHANGED gateVars
    /\ UNCHANGED registryVars
    /\ UNCHANGED loopVars

\* run(): "for line in sys.stdin" delivers the next line
StdioRead(line) ==
    /\ transport = "stdio"
    /\ pc = "read"
    /\ received < MaxInputs
    /\ cur_line' = line
    /\ received' = received + 1
    /\ pc' = "handle"
    /\ UNCHANGED <<transport, initialized, langgraph_enabled, lg_agent, tool_cache,
                   response_cache, now, ticks, answered, conns, last_response, step>>
    /\ UNCHANGED agentVars
    /\ UNCHANGED toolVars
    /\ UNCHANGED gateVars
    /\ UNCHANGED registryVars
    /\ UNCHANGED loopVars

\* the effects of one pass through the loop body of run(): r is the handler's effects
\* and the lines written
StdioDone(r) ==
    /\ Commit(r.h)
    /\ answered' = answered \o [i \in 1..Len(r.written) |-> received]
    /\ step' = Step("stdio", <<"stdout">>, cur_line, initialized, r.h.srv.initialized,
                    [i \in 1..Len(r.written) |-> Wire(<<"stdout">>, 0, r.written[i])],
                    r.h.exec, r.h.cache_read)

\* run(): the body of the loop for the line read: a blank line is skipped, any other is
\* parsed and handled and its response written and flushed
StdioHandle(env) ==
    /\ transport = "stdio"
    /\ pc = "handle"
    /\ StdioDone(IF cur_line.kind = "blank"
                 THEN [h |-> NotCalled(ServerState), written |-> <<>>]
                 ELSE RunLine(ServerState, cur_line, now, env))
    /\ pc' = "read"
    /\ cur_line' = Blank
    /\ UNCHANGED <<transport, langgraph_enabled, received, conns, last_response>>
    /\ UNCHANGED agentVars
    /\ UNCHANGED toolVars
    /\ UNCHANGED gateVars
    /\ UNCHANGED registryVars
    /\ UNCHANGED loopVars

\* run(): stdin is at its end, the loop and the server stop
StdioEOF ==
    /\ transport = "stdio"
    /\ pc = "read"
    /\ pc' = "eof"
    /\ UNCHANGED <<transport, initialized, langgraph_enabled, lg_agent, tool_cache,
                   response_cache, now, ticks, cur_line, received, answered, conns,
                   last_response, step>>
    /\ UNCHANGED agentVars
    /\ UNCHANGED toolVars
    /\ UNCHANGED gateVars
    /\ UNCHANGED registryVars
    /\ UNCHANGED loopVars

\* last_response after the captured responses of one request
LastResponseAfter(captured) ==
    IF captured = <<>> THEN last_response ELSE captured[Len(captured)]

\* a network handler that works on a session of its own: what it does to "initialized"
\* is lost with the request
NetworkDoneOwnSession(op, chan, input, r) ==
    /\ initialized' = initialized
    /\ tool_cache' = r.h.srv.tool_cache
    /\ response_cache' = r.h.srv.response_cache
    /\ lg_agent' = r.h.srv.lg_agent
    /\ now' = now + r.h.elapsed
    /\ ticks' = IF r.h.elapsed > 0 THEN ticks + 1 ELSE ticks
    /\ last_response' = LastResponseAfter(r.captured)
    /\ step' = Step(op, chan, input, initialized, r.h.srv.initialized, <<r.reply>>,
                    r.h.exec, r.h.cache_read)

\* the effects of one request handled by a network handler: r is the handler's effects,
\* the captured responses and the reply
NetworkDone(op, chan, input, r) ==
    /\ Commit(r.h)
    /\ last_response' = LastResponseAfter(r.captured)
    /\ step' = Step(op, chan, input, initialized, r.h.srv.initialized, <<r.reply>>,
                    r.h.exec, r.h.cache_read)

\* POST /mcp: verify_api_key raises HTTPException and the endpoint is not called
HttpRejected(request, x_api_key) ==
    /\ transport = "network"
    /\ received < MaxInputs
    /\ VerifyApiKey(x_api_key) # 200
    /\ received' = received + 1
    /\ step' = Step("http", <<"http">>, HttpInput(request, x_api_key), initialized,
                    initialized,
                    <<Wire(<<"http">>, VerifyApiKey(x_api_key),
                           [detail |-> IF VerifyApiKey(x_api_key) = 401
                                       THEN "API key required" ELSE "Invalid API key"])>>,
                    <<>>, FALSE)
    /\ UNCHANGED <<transport, initialized, langgraph_enabled, lg_agent, tool_cache,
                   response_cache, now, ticks, pc, cur_line, answered, conns,
                   last_response>>
    /\ UNCHANGED agentVars
    /\ UNCHANGED toolVars
    /\ UNCHANGED gateVars
    /\ UNCHANGED registryVars
    /\ UNCHANGED loopVars

\* POST /mcp: verify_api_key returns True; the endpoint runs without awaiting, so one
\* request is one step
HttpRequest(request, x_api_key, env) ==
    /\ transport = "network"
    /\ received < MaxInputs
    /\ VerifyApiKey(x_api_key) = 200
    /\ received' = received + 1
    /\ NetworkDone("http", <<"http">>, HttpInput(request, x_api_key),
                   McpHttp(ServerState, request, now, env))
    /\ UNCHANGED <<transport, langgraph_enabled, pc, cur_line, answered, conns>>
    /\ UNCHANGED agentVars
    /\ UNCHANGED toolVars
    /\ UNCHANGED gateVars
    /\ UNCHANGED registryVars
    /\ UNCHANGED loopVars

\* websocket_endpoint: a client connects with this api_key query parameter, is accepted
\* and passes the check of the key: the receive loop starts
WsOpen(c, api_key) ==
    /\ transport = "network"
    /\ c \notin conns
    /\ WsKeyAccepted(api_key)
    /\ conns' = conns \cup {c}
    /\ ws_keys' = [k \in conns \cup {c} |-> IF k = c THEN api_key ELSE ws_keys[k]]
    /\ UNCHANGED <<transport, initialized, langgraph_enabled, lg_agent, tool_cache,
                   response_cache, now, ticks, pc, cur_line, received, answered,
                   last_response, step>>
    /\ UNCHANGED agentVars
    /\ UNCHANGED toolVars
    /\ UNCHANGED auth
    /\ UNCHANGED registryVars
    /\ UNCHANGED loopVars

\* websocket_endpoint: a client connects, is accepted and fails the check of the key:
\* the connection is closed with code 1008 before the receive loop
WsRejected(c, api_key) ==
    /\ transport = "network"
    /\ c \notin conns
    /\ ~WsKeyAccepted(api_key)
    /\ step' = Step("ws_close", <<"ws", c>>, [kind |-> "none", api_key |-> api_key],
                    initialized, initialized,
                    <<Wire(<<"ws", c>>, 1008, [reason |-> "Invalid API key"])>>,
                    <<>>, FALSE)
    /\ UNCHANGED <<transport, initialized, langgraph_enabled, lg_agent, tool_cache,
                   response_cache, now, ticks, pc, cur_line, received, answered, conns,
                   last_response>>
    /\ UNCHANGED agentVars
    /\ UNCHANGED toolVars
    /\ UNCHANGED gateVars
    /\ UNCHANGED registryVars
    /\ UNCHANGED loopVars

\* a disconnect that also ends the session of the server
WsCloseEndingSession(c) ==
    /\ transport = "network"
    /\ c \in conns
    /\ conns' = conns \ {c}
    /\ ws_keys' = [k \in conns \ {c} |-> ws_keys[k]]
    /\ initialized' = FALSE
    /\ UNCHANGED <<transport, langgraph_enabled, lg_agent, tool_cache,
                   response_cache, now, ticks, pc, cur_line, received, answered,
                   last_response, step>>
    /\ UNCHANGED agentVars
    /\ UNCHANGED toolVars
    /\ UNCHANGED auth
    /\ UNCHANGED registryVars
    /\ UNCHANGED loopVars

\* websocket_endpoint: WebSocketDisconnect ends the receive loop of the connection
WsClose(c) ==
    /\ transport = "network"
    /\ c \in conns
    /\ conns' = conns \ {c}
    /\ ws_keys' = [k \in conns \ {c} |-> ws_keys[k]]
    /\ UNCHANGED <<transport, initialized, langgraph_enabled, lg_agent, tool_cache,
                   response_cache, now, ticks, pc, cur_line, received, answered,
                   last_response, step>>
    /\ UNCHANGED agentVars
    /\ UNCHANGED toolVars
    /\ UNCHANGED auth
    /\ UNCHANGED registryVars
    /\ UNCHANGED loopVars

\* websocket_endpoint: receive_text delivers a message and handle_message handles it;
\* handle_message awaits only when it sends its answer
WsMessage(c, message, env) ==
    /\ transport = "network"
    /\ c \in conns
    /\ received < MaxInputs
    /\ received' = received + 1
    /\ NetworkDone("ws", <<"ws", c>>, message,
                   WsHandleMessage(ServerState, <<"ws", c>>, message, now, env))
    /\ UNCHANGED <<transport, langgraph_enabled, pc, cur_line, answered, conns>>
    /\ UNCHANGED agentVars
    /\ UNCHANGED toolVars
    /\ UNCHANGED gateVars
    /\ UNCHANGED registryVars
    /\ UNCHANGED loopVars

\* the server process with every kind of input, at one instant
Next ==
    \/ \E line \in Lines : StdioRead(line)
    \/ \E env \in EnvsForText(cur_line, FALSE) : StdioHandle(env)
    \/ StdioEOF
    \/ \E request \in HttpBodies : \E env \in EnvsFor(request, FALSE) :
          HttpRequest(request, None, env)
    \/ \E c \in 1..MaxConns : WsOpen(c, None)
    \/ \E c \in 1..MaxConns : WsClose(c)
    \/ \E c \in 1..MaxConns : \E message \in Messages :
          \E env \in EnvsForText(message, FALSE) : WsMessage(c, message, env)

Spec == Init /\ [][Next]_vars

\* the server process over time, with the requests that use the caches
NextTimed ==
    \/ Tick
    \/ \E request \in TimedRequests : StdioRead(Json(request))
    \/ \E env \in EnvsForText(cur_line, TRUE) : StdioHandle(env)
    \/ \E request \in TimedRequests : \E env \in EnvsFor(request, TRUE) :
          HttpRequest(request, None, env)
    \/ WsOpen(1, None)
    \/ \E request \in TimedRequests : \E env \in EnvsFor(request, TRUE) :
          WsMessage(1, Json(request), env)

SpecTimed == Init /\ [][NextTimed]_vars

\* the requests sent to a network process whose gate may be closed
AuthRequests ==
    { MkRequest(m, None, "1") : m \in {"initialize", "tools/list"} }
    \cup { MkRequest("tools/call", CallParams("check_xcode_cli", <<>>), "1") }

\* a network process started with any configuration of the gate
InitAuth ==
    /\ transport = "network"
    /\ initialized = FALSE
    /\ langgraph_enabled = FALSE
    /\ lg_agent = "none"
    /\ tool_cache = <<>>
    /\ response_cache = <<>>
    /\ now = 0
    /\ ticks = 0
    /\ pc = "read"
    /\ cur_line = Blank
    /\ received = 0
    /\ answered = <<>>
    /\ conns = {}
    /\ last_response = NoneObj
    /\ step = NoStep
    /\ auth \in AuthConfigs
    /\ ws_keys = <<>>
    /\ pending = {}
    /\ executing = {}
    /\ RegistryLoaded
    /\ AgentIdle
    /\ ToolsIdle

\* the network process with clients that present any credential
NextAuth ==
    \/ \E request \in AuthRequests : \E x_api_key \in Credentials :
          \E env \in EnvsFor(request, FALSE) : HttpRequest(request, x_api_key, env)
    \/ \E request \in AuthRequests : \E x_api_key \in Credentials :
          HttpRejected(request, x_api_key)
    \/ \E c \in 1..MaxConns : \E api_key \in Credentials : WsOpen(c, api_key)
    \/ \E c \in 1..MaxConns : \E api_key \in Credentials : WsRejected(c, api_key)
    \/ \E c \in 1..MaxConns : WsClose(c)
    \/ \E c \in 1..MaxConns : \E request \in AuthRequests :
          \E env \in EnvsFor(request, FALSE) : WsMessage(c, Json(request), env)

SpecAuth == InitAuth /\ [][NextAuth]_vars

-----------------------------------------------------------------------------
(* The network process with requests in flight: uvicorn runs every handler on one
   event loop *)

\* the calls the clients send: two tools, so two cache keys
ConcRequests ==
    { MkRequest("tools/call", p, "1") :
        p \in { CallParams("check_xcode_cli", <<>>), CallParams("list_projects", ArgsAB) } }

\* the connections of the clients: POST /mcp requests and the WebSocket connections
ConcChans == {<<"http">>} \cup {<<"ws", c>> : c \in 1..MaxConns}

\* a network process with every WebSocket connection open, after a client has sent
\* initialize
InitConc ==
    /\ transport = "network"
    /\ initialized = TRUE
    /\ langgraph_enabled = FALSE
    /\ lg_agent = "none"
    /\ tool_cache = <<>>
    /\ response_cache = <<>>
    /\ now = 0
    /\ ticks = 0
    /\ pc = "read"
    /\ cur_line = Blank
    /\ received = 0
    /\ answered = <<>>
    /\ conns = 1..MaxConns
    /\ last_response = NoneObj
    /\ step = NoStep
    /\ auth = DefaultAuth
    /\ ws_keys = [c \in 1..MaxConns |-> None]
    /\ pending = {}
    /\ executing = {}
    /\ RegistryLoaded
    /\ AgentIdle
    /\ ToolsIdle

\* an event loop that starts a handler while another is in execute_tool
LoopFreeAlways == TRUE

\* "async def mcp_http" and "async def handle_message" call the dispatcher without
\* awaiting, and the implementations block in subprocess.run: the event loop can start
\* a handler only when it runs none
LoopFree == executing = {}

\* the handler the event loop runs for the request p, on server state srv at time t
HandlerOf(srv, p, t, env) ==
    IF p.chan = <<"http">> THEN McpHttp(srv, p.request, t, env)
    ELSE WsHandleMessage(srv, p.chan, Json(p.request), t, env)

\* the request of p as recorded for the last handled input
InputOf(p) ==
    IF p.chan = <<"http">> THEN HttpInput(p.request, None) ELSE Json(p.request)

\* a client sends a request; it waits in the socket until the event loop takes it
Arrive(chan, request) ==
    /\ transport = "network"
    /\ received < MaxInputs
    /\ received' = received + 1
    /\ pending' = pending \cup {[n |-> received + 1, chan |-> chan, request |-> request]}
    /\ UNCHANGED <<transport, initialized, langgraph_enabled, lg_agent, tool_cache,
                   response_cache, now, ticks, pc, cur_line, answered, conns,
                   last_response, step, executing>>
    /\ UNCHANGED agentVars
    /\ UNCHANGED toolVars
    /\ UNCHANGED gateVars
    /\ UNCHANGED registryVars

\* the handler of p with outcome r calls an implementation, which blocks the thread
Blocks(r) == r.h.exec # <<>> /\ r.h.exec[1].invoked

\* the event loop has begun the handler of p, whose run on the present state is r: a
\* handler that calls no implementation is finished at once, another stays in
\* execute_tool with what it has read
Begun(p, env, r) ==
    IF Blocks(r)
    THEN /\ executing' = executing \cup {[p |-> p, env |-> env, began |-> now,
                                           cache_before |-> response_cache]}
         /\ UNCHANGED <<initialized, lg_agent, tool_cache, response_cache, now, ticks,
                        last_response, step>>
    ELSE /\ executing' = executing
         /\ NetworkDone(p.chan[1], p.chan, InputOf(p), r)

\* the event loop takes a waiting request and runs its handler up to the call of the
\* implementation
Begin(p, env) ==
    /\ transport = "network"
    /\ p \in pending
    /\ LoopFree
    /\ pending' = pending \ {p}
    /\ Begun(p, env, HandlerOf(ServerState, p, now, env))
    /\ UNCHANGED <<transport, langgraph_enabled, pc, cur_line, received, answered, conns>>
    /\ UNCHANGED agentVars
    /\ UNCHANGED toolVars
    /\ UNCHANGED gateVars
    /\ UNCHANGED registryVars

\* the implementation returns and the handler runs to its end: the result is cached
\* and the response sent
End(e) ==
    /\ transport = "network"
    /\ e \in executing
    /\ executing' = executing \ {e}
    /\ NetworkDone(e.p.chan[1], e.p.chan, InputOf(e.p),
                   HandlerOf([ServerState EXCEPT !.response_cache = e.cache_before],
                             e.p, e.began, e.env))
    /\ UNCHANGED <<transport, langgraph_enabled, pc, cur_line, received, answered, conns,
                   pending>>
    /\ UNCHANGED agentVars
    /\ UNCHANGED toolVars
    /\ UNCHANGED gateVars
    /\ UNCHANGED registryVars

\* what the implementation does for a request in flight: it returns a value or raises,
\* at once or after a while
ConcEnvs(request) ==
    {env \in EnvsFor(request, TRUE) : env.impl_outcome \in {Returns("v1"), Raises}}

NextConc ==
    \/ \E chan \in ConcChans : \E request \in ConcRequests : Arrive(chan, request)
    \/ \E p \in pending : \E env \in ConcEnvs(p.request) : Begin(p, env)
    \/ \E e \in executing : End(e)

SpecConc == InitConc /\ [][NextConc]_vars

-----------------------------------------------------------------------------
(* ToolRegistry._load_implementations, module by module *)

\* the modules a list of tool modules is made of, named by their place in the list
ModuleNames == <<"project", "build", "meta", "agentic">>

\* the attribute names a module can have: catalog tools, a public function that is no
\* catalog tool and a private one
ExportNames == {"list_projects", "check_xcode_cli", "build_project", "_find_projects"}

\* the lists of tool modules the loop is run on
ModuleLists ==
    UNION { { [i \in 1..n |-> [module |-> ModuleNames[i], exports |-> e[i]]] :
                e \in [1..n -> SUBSET ExportNames] } : n \in 0..MaxModules }

\* ToolRegistry.__init__ up to the call of _load_implementations
InitRegistry ==
    /\ transport = "stdio"
    /\ initialized = FALSE
    /\ langgraph_enabled = FALSE
    /\ lg_agent = "none"
    /\ tool_cache = <<>>
    /\ response_cache = <<>>
    /\ now = 0
    /\ ticks = 0
    /\ pc = "read"
    /\ cur_line = Blank
    /\ received = 0
    /\ answered = <<>>
    /\ conns = {}
    /\ last_response = NoneObj
    /\ step = NoStep
    /\ auth = DefaultAuth
    /\ ws_keys = <<>>
    /\ pending = {}
    /\ executing = {}
    /\ tool_modules \in ModuleLists
    /\ implementations = <<>>
    /\ loaded = 0
    /\ AgentIdle
    /\ ToolsIdle

\* one pass of "for module in tool_modules"
LoadModule ==
    /\ loaded < Len(tool_modules)
    /\ implementations' = LoadImplementations(<<tool_modules[loaded + 1]>>, implementations)
    /\ loaded' = loaded + 1
    /\ UNCHANGED <<transport, initialized, langgraph_enabled, lg_agent, tool_cache,
                   response_cache, now, ticks, pc, cur_line, received, answered, conns,
                   last_response, step, tool_modules>>
    /\ UNCHANGED agentVars
    /\ UNCHANGED toolVars
    /\ UNCHANGED gateVars
    /\ UNCHANGED loopVars

NextRegistry == LoadModule

SpecRegistry == InitRegistry /\ [][NextRegistry]_vars

-----------------------------------------------------------------------------
(* One "langgraph_agent" call on the line transport, node by node *)

\* the tools/call request whose run is followed
AgentRequest(prompt) ==
    MkRequest("tools/call", CallParams("langgraph_agent", << <<"prompt", prompt>> >>), "1")

\* the tool names reasoning outputs ask for: a tool of the agent and a name it has no
\* tool for
CallNames == {"check_xcode_cli", "clean_build"}

\* the batches of tool calls a reasoning output can request, ids numbered by position
Batches ==
    UNION { { [i \in 1..n |-> ToolCall(names[i], i)] : names \in [1..n -> CallNames] } :
            n \in 1..MaxBatch }

\* the outputs of the reasoning function
AIOutputs == {AIMessage("done", <<>>)} \cup {AIMessage("", b) : b \in Batches}

\* what the implementations can do for a batch: a tool of the agent returns or raises
OutcomesFor(tool_calls) ==
    { o \in [1..Len(tool_calls) -> {Returns("v1"), Raises}] :
        \A i \in 1..Len(tool_calls) :
            FindTool(CreateTools, tool_calls[i].name) = 0 => o[i] = Returns("v1") }

\* the AgentState of the running graph
GraphState ==
    [messages |-> messages, tool_results |-> tool_results,
     current_task |-> messages[1].content[1], context |-> <<>>]

\* a line-transport server after initialize, with LangGraph installed
InitAgent ==
    /\ transport = "stdio"
    /\ initialized = TRUE
    /\ langgraph_enabled = TRUE
    /\ lg_agent = "none"
    /\ tool_cache = <<>>
    /\ response_cache = <<>>
    /\ now = 0
    /\ ticks = 0
    /\ pc = "handle"
    /\ cur_line = Blank
    /\ received = 0
    /\ answered = <<>>
    /\ conns = {}
    /\ last_response = NoneObj
    /\ step = NoStep
    /\ auth = DefaultAuth
    /\ ws_keys = <<>>
    /\ pending = {}
    /\ executing = {}
    /\ RegistryLoaded
    /\ AgentIdle
    /\ ToolsIdle

\* _handle_langgraph_tool obtains the shared agent and run() starts the graph on a
\* fresh initial_state
AgentStart(prompt) ==
    /\ node = "idle"
    /\ received < MaxInputs
    /\ received' = received + 1
    /\ cur_line' = Json(AgentRequest(prompt))
    /\ lg_agent' = GetLangGraphAgent(ServerState, DefaultModel, TRUE).srv.lg_agent
    /\ messages' = InitialState(prompt).messages
    /\ tool_results' = InitialState(prompt).tool_results
    /\ node' = "agent"
    /\ supersteps' = 0
    /\ run_exc' = None
    /\ step' = NoStep
    /\ UNCHANGED <<transport, initialized, langgraph_enabled, tool_cache, response_cache,
                   now, ticks, pc, answered, conns, last_response>>
    /\ UNCHANGED gateVars
    /\ UNCHANGED registryVars
    /\ UNCHANGED loopVars
    /\ UNCHANGED toolVars

\* the "agent" node runs: the reasoning function answers
AgentStep(response) ==
    /\ node = "agent"
    /\ supersteps < RecursionLimit
    /\ LET after == AgentNode(GraphState, response)
       IN  /\ messages' = after.messages
           /\ tool_results' = after.tool_results
           /\ node' = NextNode("agent", after)
    /\ supersteps' = supersteps + 1
    /\ UNCHANGED run_exc
    /\ UNCHANGED serverVars

\* the "agent" node runs: the reasoning function raises, and the exception leaves
\* graph.ainvoke
AgentRaise ==
    /\ node = "agent"
    /\ supersteps < RecursionLimit
    /\ node' = "error"
    /\ run_exc' = "LLMError"
    /\ UNCHANGED <<messages, tool_results, supersteps>>
    /\ UNCHANGED serverVars

\* the "tools" node runs on the tool calls of the last message
ToolsStep(impl_outcomes) ==
    /\ node = "tools"
    /\ supersteps < RecursionLimit
    /\ LET after == ToolsNode(GraphState, impl_outcomes)
       IN  /\ messages' = after.messages
           /\ tool_results' = after.tool_results
    /\ node' = NextNode("tools", GraphState)
    /\ supersteps' = supersteps + 1
    /\ UNCHANGED run_exc
    /\ UNCHANGED serverVars

\* the graph has run as many nodes as the recursion limit allows and is not at its end
RecursionError ==
    /\ node \in {"agent", "tools"}
    /\ supersteps >= RecursionLimit
    /\ node' = "error"
    /\ run_exc' = "GraphRecursionError"
    /\ UNCHANGED <<messages, tool_results, supersteps>>
    /\ UNCHANGED serverVars

\* run_sync returns or raises, _handle_langgraph_tool sends the response and run()
\* writes it to stdout
AgentReturn ==
    /\ node \in {"end", "error"}
    /\ LET run == [raised |-> node = "error", exc |-> run_exc, state |-> GraphState]
           h == AgentResponse(ServerState, cur_line.value.id, lg_agent,
                              messages[1].content[1], run)
       IN  /\ step' = Step("stdio", <<"stdout">>, cur_line, initialized, initialized,
                           [i \in 1..Len(h.sends) |->
                               Wire(<<"stdout">>, 0,
                                    SendResponse(h.sends[i].id, h.sends[i].result,
                                                 h.sends[i].error))],
                           h.exec, h.cache_read)
           /\ answered' = answered \o [i \in 1..Len(h.sends) |-> received]
    /\ node' = "idle"
    /\ UNCHANGED <<transport, initialized, langgraph_enabled, lg_agent, tool_cache,
                   response_cache, now, ticks, pc, cur_line, received, conns,
                   last_response, messages, tool_results, supersteps, run_exc>>
    /\ UNCHANGED gateVars
    /\ UNCHANGED registryVars
    /\ UNCHANGED loopVars
    /\ UNCHANGED toolVars

NextAgent ==
    \/ \E prompt \in {"p1", "p2"} : AgentStart(prompt)
    \/ \E response \in AIOutputs : AgentStep(response)
    \/ AgentRaise
    \/ /\ node = "tools"
       /\ \E o \in OutcomesFor(messages[Len(messages)].tool_calls) : ToolsStep(o)
    \/ RecursionError
    \/ AgentReturn

SpecAgent == InitAgent /\ [][NextAgent]_vars

\* the graph executor keeps running nodes and the reasoning function answers
SpecAgentFair == SpecAgent /\ WF_vars(NextAgent)

-----------------------------------------------------------------------------
(* Implementations: src/src/xcode_tools/build.py, src/src/xcode_tools/llm_config.py,
   and the line transport calling them *)

\* the values of LLMProvider
Providers == {"ollama", "deepseek", "openai"}

\* what subprocess.run(..., timeout=...) can do: the process exits with status 0, exits
\* with another status, or is killed after the timeout and TimeoutExpired is raised
ProcessOutcomes == {"exit0", "exit1", "timeout"}

\* build_project: the dict it returns; TimeoutExpired is caught and reported in the
\* returned dict
BuildProject(proc) ==
    IF proc = "timeout"
    THEN Returns("{success: False, error: Build timeout (10 minutes)}")
    ELSE IF proc = "exit0"
    THEN Returns("{success: True, returncode: 0}")
    ELSE Returns("{success: False, returncode: 1}")

\* check_xcode_cli: the dict it returns; every exception, TimeoutExpired included, is
\* caught and reported in the returned dict
CheckXcodeCli(proc) ==
    IF proc = "timeout"
    THEN Returns("{success: False, error: timed out after 10 seconds, installed: False}")
    ELSE IF proc = "exit0"
    THEN Returns("{success: True, version: Xcode, installed: True}")
    ELSE Returns("{success: False, version: Unknown, installed: False}")

\* LLMService.set_provider: the provider of the service afterwards; an unsupported one
\* raises ValueError before anything is assigned
SetProvider(current, provider) == IF provider \in Providers THEN provider ELSE current

\* set_llm_provider: the dict it returns; the ValueError of set_provider is caught and
\* reported in the returned dict
SetLlmProvider(provider) ==
    IF provider \in Providers
    THEN Returns("{success: True, provider: " \o provider \o "}")
    ELSE Returns("{success: False, error: Unsupported provider: " \o provider \o "}")

\* get_llm_status: the dict it returns, with the provider the service has
GetLlmStatus(current) == Returns("{success: True, provider: " \o current \o "}")

\* the tools whose implementation runs an external process
RunsProcess(tool_name) == tool_name \in {"build_project", "check_xcode_cli"}

\* impl(**kwargs) for the implementations above: what the call does, given what the
\* external process does and the provider the LLM service has
Implementation(tool_name, kwargs, proc, current) ==
    IF tool_name = "build_project" THEN BuildProject(proc)
    ELSE IF tool_name = "check_xcode_cli" THEN CheckXcodeCli(proc)
    ELSE IF tool_name = "set_llm_provider"
    THEN SetLlmProvider(DictGet(kwargs, "provider", None))
    ELSE GetLlmStatus(current)

\* the tools/call requests sent to these implementations
ToolRequests ==
    {MkRequest("tools/call", CallParams(name, <<>>), "1") :
        name \in {"check_xcode_cli", "get_llm_status"}}
    \cup {MkRequest("tools/call",
                    CallParams("build_project",
                               << <<"project_path", "App.xcodeproj">>, <<"scheme", "App">> >>),
                    "1")}
    \cup {MkRequest("tools/call", CallParams("set_llm_provider", << <<"provider", p>> >>), "1") :
             p \in {"ollama", "openai", "bogus"}}

\* the tool name and the arguments of the request in cur_line
LineToolName == DictGet(cur_line.value.params, "name", None)
LineArguments == DictGet(cur_line.value.params, "arguments", <<>>)

\* what the external process can do for the request in cur_line
ProcessesFor(tool_name) == IF RunsProcess(tool_name) THEN ProcessOutcomes ELSE {"none"}

\* the environment of the handler: the implementation behaves as its code says
ToolEnv(proc) ==
    [NoEnv EXCEPT !.impl_outcome =
        Implementation(LineToolName, LineArguments, proc, current_provider)]

\* a server on the line transport after the handshake, its LLM service configured with
\* any of the providers
InitTools ==
    /\ transport = "stdio"
    /\ initialized = TRUE
    /\ langgraph_enabled = FALSE
    /\ lg_agent = "none"
    /\ tool_cache = <<>>
    /\ response_cache = <<>>
    /\ now = 0
    /\ ticks = 0
    /\ pc = "read"
    /\ cur_line = Blank
    /\ received = 0
    /\ answered = <<>>
    /\ conns = {}
    /\ last_response = NoneObj
    /\ step = NoStep
    /\ auth = DefaultAuth
    /\ ws_keys = <<>>
    /\ pending = {}
    /\ executing = {}
    /\ RegistryLoaded
    /\ AgentIdle
    /\ current_provider \in Providers
    /\ subprocess_outcome = "none"

\* one pass through the loop body of run() with outcome r: when execute_tool has called
\* the implementation, the process has run and set_llm_provider has set the provider
ToolsDone(proc, r) ==
    /\ StdioDone(r)
    /\ IF Blocks(r)
       THEN /\ subprocess_outcome' = proc
            /\ current_provider' =
                   IF LineToolName = "set_llm_provider"
                   THEN SetProvider(current_provider,
                                    DictGet(LineArguments, "provider", None))
                   ELSE current_provider
       ELSE /\ subprocess_outcome' = "none"
            /\ current_provider' = current_provider

\* run(): the body of the loop for a tools/call line
ToolsHandle(proc) ==
    /\ transport = "stdio"
    /\ pc = "handle"
    /\ proc \in ProcessesFor(LineToolName)
    /\ ToolsDone(proc, RunLine(ServerState, cur_line, now, ToolEnv(proc)))
    /\ pc' = "read"
    /\ cur_line' = Blank
    /\ UNCHANGED <<transport, langgraph_enabled, received, conns, last_response>>
    /\ UNCHANGED agentVars
    /\ UNCHANGED gateVars
    /\ UNCHANGED registryVars
    /\ UNCHANGED loopVars

NextTools ==
    \/ \E request \in ToolRequests : StdioRead(Json(request))
    \/ \E proc \in ProcessOutcomes \cup {"none"} : ToolsHandle(proc)
    \/ Tick

SpecTools == InitTools /\ [][NextTools]_vars

-----------------------------------------------------------------------------
(* What the last handled input was *)

\* the last handled input was a JSON object whose method is one of `methods`
IsRequestStep(methods) ==
    /\ step.op # "none"
    /\ step.input.kind = "json"
    /\ "method" \in DOMAIN step.input.value
    /\ step.input.value.method \in methods

\* params, params.get("name") and params.get("arguments", {}) of that request
StepParams ==
    IF "params" \in DOMAIN step.input.value THEN step.input.value.params ELSE <<>>

StepToolName == DictGet(StepParams, "name", None)

StepArguments == DictGet(StepParams, "arguments", <<>>)

StepCacheKey == CacheKey(StepToolName, StepArguments)

\* the last handled input was a tools/call of a non-orchestration tool in an
\* initialized session
IsDirectCallStep ==
    /\ IsRequestStep({"tools/call"})
    /\ step.was_initialized
    /\ StepToolName \notin {None, ""}
    /\ ~StartsWithLangGraph(StepToolName)

\* the error code of a response body, 0 when it carries no error
ErrorCode(body) == IF "error" \in DOMAIN body THEN body.error.code ELSE 0

\* the last handled input was answered by exactly one response, with this error code
AnsweredWithError(code) ==
    /\ Len(step.emitted) = 1
    /\ "result" \notin DOMAIN step.emitted[1].body
    /\ ErrorCode(step.emitted[1].body) = code

\* the last handled input was answered by exactly one response, carrying a result
AnsweredWithResult ==
    /\ Len(step.emitted) = 1
    /\ "result" \in DOMAIN step.emitted[1].body
    /\ "error" \notin DOMAIN step.emitted[1].body

-----------------------------------------------------------------------------
(* Claims *)

\* C1: a tools/list or tools/call handled while the session is uninitialized is answered
\* with error -32002, makes no execute_tool call, looks into no cache and leaves both
\* caches empty; a tools/list handled in an initialized session is answered with a
\* result whose tools name every definition of the catalog.
C1_InitializationGate ==
    /\ ~initialized => DOMAIN tool_cache = {} /\ DOMAIN response_cache = {}
    /\ (IsRequestStep({"tools/list", "tools/call"}) /\ ~step.was_initialized) =>
          /\ AnsweredWithError(-32002)
          /\ step.exec = <<>>
          /\ ~step.cache_read
          /\ DOMAIN tool_cache = {}
          /\ DOMAIN response_cache = {}
    /\ (IsRequestStep({"tools/list"}) /\ step.was_initialized) =>
          /\ AnsweredWithResult
          /\ LET tools == step.emitted[1].body.result.tools
             IN  /\ tools # <<>>
                 /\ \A name \in DOMAIN RegistryTools :
                        \E i \in 1..Len(tools) : tools[i].name = name

\* a tools/call of a bound tool was refused with -32002 in an uninitialized session
C1_Witness ==
    /\ IsRequestStep({"tools/call"})
    /\ ~step.was_initialized
    /\ GetToolImplementation(StepToolName) # None
    /\ AnsweredWithError(-32002)

\* C2 as stated: a direct tools/call that finds an entry for its name and canonical
\* arguments younger than the TTL returns that entry's envelope without an
\* execute_tool call; one that finds an expired entry invokes the implementation
\* again and the entry is replaced by the new result.
C2_AsStated ==
    (IsDirectCallStep /\ StepCacheKey \in DOMAIN step.cache_before) =>
        LET old == step.cache_before[StepCacheKey]
        IN  IF step.at - old[1] < CacheTTL
            THEN /\ AnsweredWithResult
                 /\ step.emitted[1].body.result = old[2]
                 /\ step.exec = <<>>
            ELSE /\ step.exec # <<>>
                 /\ step.exec[1].invoked
                 /\ response_cache[StepCacheKey][1] >= step.at
                 /\ AnsweredWithResult
                 /\ response_cache[StepCacheKey][2] = step.emitted[1].body.result

\* C2: a direct tools/call that finds an entry for its name and canonical arguments
\* younger than the TTL returns that entry's envelope without an execute_tool call
\* and leaves the entry alone; one that finds an expired entry invokes the
\* implementation again, and the entry is replaced by the new envelope when the call
\* is answered with a result and stays as it was when it is not.
C2_CacheHitAndExpiry ==
    (IsDirectCallStep /\ StepCacheKey \in DOMAIN step.cache_before) =>
        LET old == step.cache_before[StepCacheKey]
        IN  IF step.at - old[1] < CacheTTL
            THEN /\ AnsweredWithResult
                 /\ step.emitted[1].body.result = old[2]
                 /\ step.exec = <<>>
                 /\ response_cache = step.cache_before
            ELSE /\ step.exec # <<>>
                 /\ step.exec[1].invoked
                 /\ IF AnsweredWithResult
                    THEN /\ response_cache[StepCacheKey][1] >= step.at
                         /\ response_cache[StepCacheKey][2] = step.emitted[1].body.result
                    ELSE response_cache = step.cache_before

\* an expired entry was found, the implementation ran again and the entry was replaced
C2_Witness ==
    /\ IsDirectCallStep
    /\ StepCacheKey \in DOMAIN step.cache_before
    /\ step.at - step.cache_before[StepCacheKey][1] >= CacheTTL
    /\ step.exec # <<>>
    /\ AnsweredWithResult
    /\ response_cache[StepCacheKey] # step.cache_before[StepCacheKey]

\* C3 as stated: no execute_tool call raises; for a name without implementation it
\* returns the Failure "Tool '<name>' not implemented", for an implementation that
\* raises a Failure with the exception's message, otherwise a Success with the value.
C3_AsStated ==
    \A i \in 1..Len(step.exec) :
        LET e == step.exec[i]
        IN  e.kind = "execute_tool" =>
                /\ ~e.raised
                /\ GetToolImplementation(e.tool) = None =>
                       /\ ~e.outcome.success
                       /\ e.outcome.error = <<"Tool '", e.tool, "' not implemented">>
                /\ GetToolImplementation(e.tool) # None =>
                       \/ ~e.outcome.success /\ e.outcome.error = <<"boom">>
                       \/ e.outcome.success /\ e.outcome.result \in ToolValues

\* C4 as stated: in an initialized session a tools/call that names a non-orchestration
\* tool without bound implementation is answered with error -32000 carrying the
\* registry's message, never with a result.
C4_AsStated ==
    (IsDirectCallStep /\ GetToolImplementation(StepToolName) = None) =>
        /\ AnsweredWithError(-32000)
        /\ step.emitted[1].body.error.message
              = <<"Tool '", StepToolName, "' not implemented">>

\* the argument mappings of the direct calls
ArgumentSets == {DictGet(p, "arguments", <<>>) : p \in DirectCalls}

\* C5: a direct tools/call whose execute_tool returns a Failure is answered with error
\* -32000 and leaves the result cache as it was; every entry of the result cache is
\* the envelope of a value a bound implementation returned under the key of its tool
\* name and arguments, and an entry changes only by a Success of a call with that key;
\* a call that finds no live entry (as after a Failure) calls execute_tool again.
C5_FailuresNotCached ==
    /\ \A key \in DOMAIN response_cache :
           \E name \in DOMAIN Implementations, arguments \in ArgumentSets,
              v \in ToolValues \ {Unserializable} :
               /\ key = CacheKey(name, arguments)
               /\ response_cache[key][2] = Envelope(JsonDumps(v))
    /\ IsDirectCallStep =>
           /\ (step.exec # <<>> /\ ~step.exec[1].raised /\ ~step.exec[1].outcome.success) =>
                 /\ AnsweredWithError(-32000)
                 /\ response_cache = step.cache_before
           /\ response_cache # step.cache_before =>
                 /\ step.exec # <<>>
                 /\ step.exec[1].outcome.success
                 /\ CacheKey(step.exec[1].tool, step.exec[1].arguments) = StepCacheKey
                 /\ DOMAIN response_cache = DOMAIN step.cache_before \cup {StepCacheKey}
                 /\ response_cache[StepCacheKey][2]
                       = Envelope(JsonDumps(step.exec[1].outcome.result))
                 /\ \A key \in DOMAIN step.cache_before \ {StepCacheKey} :
                        response_cache[key] = step.cache_before[key]
           /\ ~CacheLive(step.cache_before, StepCacheKey, step.at) => step.exec # <<>>

\* the implementation was invoked over an expired entry and raised: error -32000, and
\* the entry was not refreshed
C5_Witness ==
    /\ IsDirectCallStep
    /\ StepCacheKey \in DOMAIN step.cache_before
    /\ step.exec # <<>>
    /\ step.exec[1].invoked
    /\ ~step.exec[1].outcome.success
    /\ AnsweredWithError(-32000)
    /\ response_cache = step.cache_before

\* C6: no step of the server, on any transport, takes an initialized session back to
\* uninitialized.
C6_InitializedForever == [][initialized => initialized']_vars

\* an initialize request was handled in a session that was already initialized
C6_Witness ==
    /\ IsRequestStep({"initialize"})
    /\ step.was_initialized
    /\ initialized

\* C7: every response put on stdout, returned over HTTP, sent over a WebSocket or
\* captured from the dispatcher has exactly one of the fields result and error.
C7_ResultXorError ==
    /\ \A i \in 1..Len(step.emitted) :
           ("result" \in DOMAIN step.emitted[i].body)
               # ("error" \in DOMAIN step.emitted[i].body)
    /\ last_response # NoneObj =>
           ("result" \in DOMAIN last_response) # ("error" \in DOMAIN last_response)

\* a handler raised under the HTTP adapter, which answered with its own error body
C7_Witness ==
    /\ step.op = "http"
    /\ step.exec # <<>>
    /\ step.exec[1].raised
    /\ step.emitted[1].status = 500
    /\ "error" \in DOMAIN step.emitted[1].body

\* the index, among the lines read, of the line handled last
LastHandledLine == IF pc = "handle" THEN received - 1 ELSE received

\* C8: on the line transport the responses written so far answer lines in the order
\* read, at most one per line, and none answers the line that is still to be handled;
\* the line handled last, when it held a JSON object other than the initialized
\* notification, got exactly one response.
C8_OneAtATime ==
    transport = "stdio" =>
        /\ \A i \in 1..Len(answered) : answered[i] <= LastHandledLine
        /\ \A i \in 1..(Len(answered) - 1) : answered[i] < answered[i + 1]
        /\ (step.op = "stdio" /\ step.input.kind = "json"
            /\ ~IsRequestStep({"notifications/initialized"})) =>
               /\ Len(step.emitted) = 1
               /\ answered # <<>>
               /\ answered[Len(answered)] = LastHandledLine

\* three lines were read and answered one after the other, the last by way of an
\* exception caught in the loop
C8_Witness ==
    /\ transport = "stdio"
    /\ pc = "read"
    /\ answered = <<1, 2, 3>>
    /\ IsRequestStep({"tools/call"})
    /\ AnsweredWithError(-32603)

\* the reasoning outputs of the current run, and whether each requested a tool call
ReasoningTurns == SelectSeq(messages, LAMBDA m : m.type = "ai")

AlwaysRequests == \A i \in 1..Len(ReasoningTurns) : ReasoningTurns[i].tool_calls # <<>>

\* C9: a run executes at most RecursionLimit nodes, so at most that many reasoning
\* turns; a run whose every reasoning output requests a tool call never ends at END,
\* and its caller is answered with error -32000; every run that starts comes back.
C9_BoundedRun ==
    /\ [](/\ supersteps <= RecursionLimit
          /\ Len(ReasoningTurns) <= RecursionLimit
          /\ AlwaysRequests => node # "end"
          /\ (node = "idle" /\ step.op = "stdio" /\ AlwaysRequests) =>
                 AnsweredWithError(-32000))
    /\ (node \in {"agent", "tools"}) ~> (node = "idle")

\* a run whose reasoning outputs all requested a tool call was stopped at the limit and
\* answered with error -32000
C9_Witness ==
    /\ node = "idle"
    /\ step.op = "stdio"
    /\ run_exc = "GraphRecursionError"
    /\ Len(ReasoningTurns) >= 2
    /\ AlwaysRequests
    /\ AnsweredWithError(-32000)

\* the tool calls requested by the reasoning outputs of `msgs`, in order
RECURSIVE Requested(_)
Requested(msgs) ==
    IF msgs = <<>> THEN <<>>
    ELSE (IF Head(msgs).type = "ai" THEN Head(msgs).tool_calls ELSE <<>>)
         \o Requested(Tail(msgs))

\* C10 as stated: when the loop is back at the Reason step, tool_results holds exactly
\* one record per tool call requested so far, in the order requested, and the record
\* of a call that names a tool the agent does not have is a failure.
C10_AsStated ==
    node = "agent" =>
        LET calls == Requested(messages)
        IN  /\ Len(tool_results) = Len(calls)
            /\ \A i \in 1..Len(calls) :
                   /\ tool_results[i].tool = calls[i].name
                   /\ FindTool(CreateTools, calls[i].name) = 0 => ~tool_results[i].success

\* C11 as stated: once the reasoning function has raised, the run executes no further
\* node, and its caller is answered with a result that carries the messages and the
\* tool results accumulated before the failure.
C11_AsStated ==
    /\ run_exc = "LLMError" => node \in {"error", "idle"}
    /\ (node = "idle" /\ step.op = "stdio" /\ run_exc = "LLMError") =>
          /\ AnsweredWithResult
          /\ LET text == step.emitted[1].body.result.content[1].text
             IN  /\ text[2].tool_results = tool_results
                 /\ text[2].messages_count = Len(messages)

\* the last handled input was a tools/call of an orchestration tool in an initialized
\* session
IsOrchestrationCallStep ==
    /\ IsRequestStep({"tools/call"})
    /\ step.was_initialized
    /\ StepToolName \notin {None, ""}
    /\ StartsWithLangGraph(StepToolName)

C13_AsStated ==
    (/\ step.op # "none"
     /\ step.input.kind = "json"
     /\ "method" \in DOMAIN step.input.value
     /\ step.input.value.method \notin {"initialize", "notifications/initialized"}
     /\ ~step.was_initialized) =>
        AnsweredWithError(-32002)

\* C14 as stated: a notifications/initialized message handled on the line transport or
\* on a WebSocket puts no response on the wire and leaves the session state and the
\* result cache as they were.
C14_AsStated ==
    (IsRequestStep({"notifications/initialized"}) /\ step.op \in {"stdio", "ws"}) =>
        /\ step.emitted = <<>>
        /\ initialized = step.was_initialized
        /\ response_cache = step.cache_before

\* C15: handling a line or a WebSocket message that is not JSON puts exactly one
\* response on the wire, an error with code -32700, and leaves the session state, both
\* caches, the shared agent and the open connections as they were; the read loop of
\* the line transport goes back to reading after every handled line and ends only
\* where it reads, at the end of the input.
C15_ParseError ==
    [][/\ (/\ \/ pc = "handle" /\ pc' = "read"
              \/ transport = "network" /\ received' # received
           /\ step'.input.kind = "garbage") =>
              /\ UNCHANGED <<initialized, tool_cache, response_cache, lg_agent, conns>>
              /\ Len(step'.emitted) = 1
              /\ "result" \notin DOMAIN step'.emitted[1].body
              /\ ErrorCode(step'.emitted[1].body) = -32700
              /\ pc' = "read"
       /\ pc = "handle" => pc' = "read"
       /\ pc' = "eof" => pc = "read"]_vars

\* in an initialized session a line that is not JSON was answered with -32700, the
\* session is still initialized and the loop has read the next line
C15_Witness ==
    /\ step.op = "stdio"
    /\ step.input.kind = "garbage"
    /\ step.was_initialized
    /\ initialized
    /\ AnsweredWithError(-32700)
    /\ pc = "handle"
    /\ cur_line.kind = "json"

\* C16: the process has one session: it is initialized exactly when some channel
\* (POST /mcp or a WebSocket connection) has handled an initialize, and from then on a
\* tools/list or tools/call arriving on any channel of the network transports finds the
\* session initialized and is not refused with -32002.
C16_SharedSession ==
    /\ initialized <=> step.init_by # <<>>
    /\ (/\ transport = "network"
        /\ IsRequestStep({"tools/list", "tools/call"})
        /\ step.init_by # <<>>) =>
           /\ step.was_initialized
           /\ Len(step.emitted) = 1
           /\ ErrorCode(step.emitted[1].body) # -32002

\* a tools/call on a WebSocket connection was answered with a result in a session
\* that an initialize on POST /mcp had opened
C16_Witness ==
    /\ transport = "network"
    /\ IsRequestStep({"tools/call"})
    /\ step.op = "ws"
    /\ step.init_by = <<"http">>
    /\ AnsweredWithResult

\* websocket_endpoint, "if REQUIRE_AUTH and API_KEY": the gate checks credentials
GateClosed == auth.REQUIRE_AUTH /\ auth.API_KEY # ""

\* the last input was turned away by the gate: POST /mcp answered 401 or 403, or a
\* WebSocket connection closed with 1008
IsRejectionStep ==
    \/ step.op = "http" /\ step.emitted[1].status \in {401, 403}
    \/ step.op = "ws_close"

\* C17: while enforcement is off or no secret is configured nothing is turned away,
\* whatever credential is presented. While enforcement is on and a secret is
\* configured, every open WebSocket connection has presented the secret, every
\* POST /mcp that presented anything else was turned away, and a request that is
\* turned away makes no execute_tool call, looks into no cache and leaves the session
\* state, both caches, the shared agent, the captured response and the connections as
\* they were; WebSocket messages are handled on open connections only.
C17_CredentialGate ==
    /\ [](/\ ~GateClosed => ~IsRejectionStep
          /\ GateClosed =>
                /\ \A c \in conns : ws_keys[c] = auth.API_KEY
                /\ (step.op = "http" /\ step.input.x_api_key # auth.API_KEY) =>
                       IsRejectionStep
          /\ IsRejectionStep => step.exec = <<>> /\ ~step.cache_read)
    /\ [][/\ (step' # step /\ IsRejectionStep') =>
                UNCHANGED <<initialized, tool_cache, response_cache, lg_agent, conns,
                            last_response>>
          /\ (received' # received /\ step'.op = "ws") => step'.chan[2] \in conns]_vars

\* in a session that a client with the secret had initialized, a tools/call on
\* POST /mcp with another credential was turned away with 403 and executed nothing
C17_Witness ==
    /\ GateClosed
    /\ initialized
    /\ IsRequestStep({"tools/call"})
    /\ step.op = "http"
    /\ step.input.x_api_key = "wrong"
    /\ step.emitted[1].status = 403
    /\ step.exec = <<>>
    /\ DOMAIN response_cache = {}

\* the modules processed so far that export `name` as a public attribute
Exporters(name) ==
    {i \in 1..loaded : name \in tool_modules[i].exports /\ ~StartsWithUnderscore(name)}

ListedDirectTools ==
    LET tools == step.emitted[1].body.result.tools
    IN  {tools[i].name : i \in {j \in 1..Len(tools) : ~StartsWithLangGraph(tools[j].name)}}

\* C19 as stated: list_tools and the direct tools of every tools/list result name
\* exactly the definitions of the catalog, bound or not, and a direct tools/call of a
\* cataloged tool without implementation is answered with the Failure
\* "Tool '<name>' not implemented" (error -32000), its execute_tool call not raising.
C19_AsStated ==
    /\ {ListTools[i].name : i \in 1..Len(ListTools)} = DOMAIN RegistryTools
    /\ (IsRequestStep({"tools/list"}) /\ step.was_initialized) =>
          /\ AnsweredWithResult
          /\ ListedDirectTools = DOMAIN RegistryTools
    /\ (/\ IsDirectCallStep
        /\ StepToolName \in DOMAIN RegistryTools
        /\ GetToolImplementation(StepToolName) = None) =>
           /\ AnsweredWithError(-32000)
           /\ step.emitted[1].body.error.message
                 = <<"Tool '", StepToolName, "' not implemented">>
           /\ \A i \in 1..Len(step.exec) : ~step.exec[i].raised

\* C20: a run starts at the agent node with the prompt as its only message. A step
\* of the agent node appends exactly one message, the output of the reasoning
\* function, leaves the tool results alone, and leads to END exactly when that
\* message has no tool calls and to the tools node otherwise; a step of the tools node
\* leads back to the agent node unless the run is aborted; a run at END stays there
\* until it is returned, and its last message is a reasoning output without tool calls.
C20_ReasonActAlternate ==
    /\ [](node = "end" =>
            /\ messages[Len(messages)].type = "ai"
            /\ messages[Len(messages)].tool_calls = <<>>)
    /\ [][/\ (node = "idle" /\ node' # "idle") =>
                /\ node' = "agent"
                /\ supersteps' = 0
                /\ Len(messages') = 1
                /\ messages'[1].type = "human"
          /\ (node = "agent" /\ node' # "agent") =>
                \/ node' = "error" /\ messages' = messages
                \/ /\ node' \in {"tools", "end"}
                   /\ supersteps' = supersteps + 1
                   /\ Len(messages') = Len(messages) + 1
                   /\ SubSeq(messages', 1, Len(messages)) = messages
                   /\ messages'[Len(messages')].type = "ai"
                   /\ node' = "end" <=> messages'[Len(messages')].tool_calls = <<>>
                   /\ tool_results' = tool_results
          /\ (node = "agent" /\ node' = "agent") => UNCHANGED <<messages, supersteps>>
          /\ (node = "tools" /\ node' # "tools") =>
                \/ node' = "error" /\ messages' = messages
                \/ /\ node' = "agent"
                   /\ supersteps' = supersteps + 1
                   /\ SubSeq(messages', 1, Len(messages)) = messages
          /\ (node = "tools" /\ node' = "tools") => UNCHANGED <<messages, supersteps>>
          /\ node = "end" => node' \in {"end", "idle"} /\ messages' = messages]_vars

\* a run is at END after a Reason step, an Act step that ran a tool and a second
\* Reason step
C20_Witness ==
    /\ node = "end"
    /\ supersteps = 3
    /\ Len(ReasoningTurns) = 2
    /\ tool_results # <<>>
    /\ ReasoningTurns[1].tool_calls # <<>>
    /\ ReasoningTurns[2].tool_calls = <<>>

\* the index of the last reasoning output in messages, 0 when there is none
LastReasoningIndex ==
    IF \E i \in 1..Len(messages) : messages[i].type = "ai"
    THEN CHOOSE i \in 1..Len(messages) :
             messages[i].type = "ai" /\ \A j \in (i + 1)..Len(messages) : messages[j].type # "ai"
    ELSE 0

\* C21 as stated: when the loop is back at the Reason step after an Act step, the
\* messages that follow the last reasoning output are result messages, one for each
\* tool call it requested of a tool the agent has, succeeded or failed, in call order
\* and tagged with the call's identifier.
C21_AsStated ==
    (node = "agent" /\ LastReasoningIndex > 0) =>
        LET k == LastReasoningIndex
            calls == SelectSeq(messages[k].tool_calls,
                               LAMBDA c : FindTool(CreateTools, c.name) # 0)
            results == SubSeq(messages, k + 1, Len(messages))
        IN  /\ Len(results) = Len(calls)
            /\ \A i \in 1..Len(calls) :
                   /\ results[i].type = "tool"
                   /\ results[i].tool_call_id = <<calls[i].id>>

\* the cache key of a tools/call request
KeyOf(request) ==
    CacheKey(DictGet(request.params, "name", None),
             DictGet(request.params, "arguments", <<>>))

\* C22: at most one handler is between its look into the result cache and its write,
\* and the cache it wrote to is still the cache it read; after a call that executed the
\* implementation and was answered with a result, the entry of its key pairs the
\* envelope it sent with the time of its insertion, and every other entry is as the
\* handler found it.
C22_SerializedCache ==
    /\ Cardinality(executing) <= 1
    /\ \A e \in executing : response_cache = e.cache_before /\ now = e.began
    /\ (IsDirectCallStep /\ step.exec # <<>> /\ AnsweredWithResult) =>
          /\ DOMAIN response_cache = DOMAIN step.cache_before \cup {StepCacheKey}
          /\ response_cache[StepCacheKey] = <<now, step.emitted[1].body.result>>
          /\ \A k \in DOMAIN step.cache_before \ {StepCacheKey} :
                 response_cache[k] = step.cache_before[k]

\* while the implementation runs for a request, a request with the same cache key
\* that arrived on another connection is waiting
C22_Witness ==
    \E e \in executing : \E p \in pending :
        /\ p.chan # e.p.chan
        /\ KeyOf(p.request) = KeyOf(e.p.request)

\* C23 as stated: while the implementation runs for one request, the handler of a
\* waiting request that arrived on another connection with a different cache key can
\* be run.
C23_AsStated ==
    \A e \in executing : \A p \in pending :
        (p.chan # e.p.chan /\ KeyOf(p.request) # KeyOf(e.p.request)) =>
            ENABLED (\E env \in ConcEnvs(p.request) : Begin(p, env))

\* C24: a tool invocation whose external process exceeds its timeout ends as a Failure
\* outcome of execute_tool, never as a Success
C24_AsStated ==
    (step.op = "stdio" /\ subprocess_outcome = "timeout") =>
        \A i \in 1..Len(step.exec) :
            step.exec[i].kind = "execute_tool" => ~step.exec[i].outcome.success

\* a connection of `open` is closed, or stdin reaches its end
IsCloseStep ==
    \/ conns' # conns /\ conns' \subseteq conns
    \/ pc = "read" /\ pc' = "eof"

\* a request can be handled on POST /mcp and on every open WebSocket connection
NetworkServed ==
    /\ ENABLED (\E request \in HttpBodies : \E env \in EnvsFor(request, FALSE) :
                   HttpRequest(request, None, env))
    /\ \A c \in conns :
          ENABLED (\E message \in Messages : \E env \in EnvsForText(message, FALSE) :
                      WsMessage(c, message, env))

\* C25: when a WebSocket closes or stdin ends, the read loop of that connection stops
\* (the line-transport server reads no further line), the session state and both caches
\* are left as they were, and POST /mcp and the remaining connections are still served
C25_CloseLeavesState ==
    /\ [][IsCloseStep =>
             /\ initialized' = initialized
             /\ tool_cache' = tool_cache
             /\ response_cache' = response_cache
             /\ lg_agent' = lg_agent
             /\ last_response' = last_response]_vars
    /\ [](/\ pc = "eof" => ~ENABLED ((\E line \in Lines : StdioRead(line))
                                      \/ (\E env \in EnvsForText(cur_line, FALSE) :
                                             StdioHandle(env)))
          /\ \A c \in (1..MaxConns) \ conns :
                ~ENABLED (\E message \in Messages : \E env \in EnvsForText(message, FALSE) :
                             WsMessage(c, message, env))
          /\ (transport = "network" /\ received < MaxInputs) => NetworkServed)

\* the connection that initialized the session has been closed, and a tool call on
\* POST /mcp is answered from the session it left behind
C25_Witness ==
    /\ transport = "network"
    /\ conns = {}
    /\ step.init_by = <<"ws", 1>>
    /\ step.op = "http"
    /\ IsDirectCallStep
    /\ AnsweredWithResult

\* C26: every invocation of the orchestration starts from a fresh AgentState holding
\* only the prompt of this invocation and no tool results, whatever an earlier
\* invocation on the same agent instance has left behind
C26_FreshAgentState ==
    [][(node = "idle" /\ node' = "agent") =>
          /\ messages' =
                <<HumanMessage(DictGet(DictGet(cur_line'.value.params, "arguments", <<>>),
                                       "prompt", None))>>
          /\ tool_results' = <<>>
          /\ supersteps' = 0
          /\ run_exc' = None]_vars

\* a second invocation has just started on the agent instance the first one created
C26_Witness ==
    /\ received = 2
    /\ lg_agent = DefaultModel
    /\ node = "agent"
    /\ supersteps = 0
    /\ messages = <<HumanMessage("p2")>>
    /\ tool_results = <<>>

\* what a client compares of a JSON-RPC body: its id (None for a null id as for a body
\* without id member) and its result or the code of its error
Outline(body) ==
    [id |-> IF "id" \in DOMAIN body THEN body.id ELSE None,
     code |-> ErrorCode(body),
     result |-> IF "result" \in DOMAIN body THEN body.result ELSE NoneObj]

\* the initialize, tools/list, tools/call and unknown-method requests of the model
EquivRequests == {request \in Requests : request.method # "notifications/initialized"}

\* what the environment can do while `request` is handled, the same on every transport
EquivEnvs(request) ==
    LET params == IF "params" \in DOMAIN request THEN request.params ELSE <<>>
        name == DictGet(params, "name", None)
    IN  IF request.method = "tools/call" /\ name \in {"langgraph_agent", "langgraph_workflow"}
        THEN {[NoEnv EXCEPT !.script = sc, !.create_ok = ok] : sc \in Scripts, ok \in BOOLEAN}
        ELSE EnvsFor(request, FALSE)

\* the three adapters answer with the same bodies and leave the same server state
SameAnswers(line, http, ws) ==
    /\ [i \in 1..Len(line.written) |-> Outline(line.written[i])] = <<Outline(http.reply.body)>>
    /\ [i \in 1..Len(line.written) |-> Outline(line.written[i])] = <<Outline(ws.reply.body)>>
    /\ line.h.srv = http.h.srv
    /\ line.h.srv = ws.h.srv

\* C27: from every state a request sequence can lead to, HTTP and WebSocket answer an
\* initialize, tools/list, tools/call or unknown-method request with the same JSON-RPC
\* body (result or error code, and id) as the line transport
C27_AsStated ==
    \A request \in EquivRequests : \A env \in EquivEnvs(request) :
        SameAnswers(RunLine(ServerState, Json(request), now, env),
                    McpHttp(ServerState, request, now, env),
                    WsHandleMessage(ServerState, <<"ws", 1>>, Json(request), now, env))

\* C28: every response to a request that has an id carries that id, on success and on
\* every error path, and goes to the client that sent the request
C28_AsStated ==
    (/\ step.input.kind = "json"
     /\ "id" \in DOMAIN step.input.value
     /\ step.input.value.id # None) =>
        \A i \in 1..Len(step.emitted) :
            /\ step.emitted[i].chan = step.chan
            /\ "id" \in DOMAIN step.emitted[i].body
            /\ step.emitted[i].body.id = step.input.value.id

\* the last handled request was a tools/call of `tool_name` answered with the result
\* envelope of `outcome`
AnsweredWithValue(tool_name, outcome) ==
    /\ IsDirectCallStep
    /\ StepToolName = tool_name
    /\ AnsweredWithResult
    /\ step.emitted[1].body.result = Envelope(JsonDumps(outcome.value))

\* C29: once set_llm_provider(p) has been answered with success, the provider of the
\* LLM service is p, and a get_llm_status answered with a result reports the provider
\* the service has
C29_AsStated ==
    /\ \A p \in Providers :
          AnsweredWithValue("set_llm_provider", SetLlmProvider(p)) => current_provider = p
    /\ (IsDirectCallStep /\ StepToolName = "get_llm_status" /\ AnsweredWithResult) =>
          AnsweredWithValue("get_llm_status", GetLlmStatus(current_provider))

\* C30: a langgraph_agent call that passes a model argument runs on an agent built for
\* that model, whatever agent earlier calls have created
C30_AsStated ==
    (/\ IsRequestStep({"tools/call"})
     /\ StepToolName = "langgraph_agent"
     /\ "model" \in DictKeys(StepArguments)) =>
        \A i \in 1..Len(step.exec) :
            (step.exec[i].kind = "run_sync" /\ ~step.exec[i].raised) =>
                step.exec[i].agent = DictGet(StepArguments, "model", None)

====
